---- MODULE Spec2Model ----
(***************************************************************************)
(* A model of the memory core of the vanadinite kernel: the free-list      *)
(* kernel heap (mem/heap/free_list.rs), the page-table manager             *)
(* (mem/paging/manager.rs), the three-level walk exercised by kernel_entry *)
(* (main.rs), the user-side Vmspace spawn hand-off (std/vmspace.rs) and    *)
(* the user-side MemoryAllocation and DmaRegion (librust/src/mem.rs).      *)
(***************************************************************************)
EXTENDS Integers, Sequences, FiniteSets, TLC

VARIABLES
    head,       \* FreeList.head: NULL (None) or the address of the first free node
    nodes,      \* heap memory: node address -> the FreeListNode header stored there
    live,       \* the allocations callers currently hold: [ptr, size]
    heap_last,  \* the last heap call: its arguments, its result and the heap before it
    heap_ops,   \* number of heap calls made so far
    heap_region, \* the (origin, size) init was called with, <<0, 0>> before init
    vm_state,     \* the Vmspace value: "none", "staging", "spawning", "spawned", ...
    vm_id,        \* Vmspace.id
    caps_to_send, \* Vmspace.caps_to_send
    grant_calls,  \* the calls of grant made so far, in call order
    channel,      \* what has been sent on the channel spawn_vmspace returned
    vm_last,      \* the result of the last Vmspace call that has ended
    spawning,     \* the call of spawn in progress: its (tid, cptr), the calls made
    syscalls,     \* the syscalls the Vmspace wrappers have made, in order
    address_spaces, \* kernel side: the address spaces created and not released
    objects,      \* kernel side: the object mappings set up and not released
    tables,       \* page-table memory: physical address of a table -> its valid entries
    frames_used,  \* frames the physical frame allocator has handed out
    pt_mapped,    \* the 4 KiB mappings map has made that nothing has replaced since
    pt_cur,       \* the PageTableManager call in progress and where it is
    pt_last,      \* the last PageTableManager call: arguments, result, tables before it
    pt_ops,       \* number of PageTableManager calls made so far
    boot_pc,      \* how far kernel_entry has come with its test tables
    boot_tables,  \* pt1, pt2 and pt3 of kernel_entry, by address
    boot_va,      \* the address kernel_entry translates
    boot_ret,     \* what to_physical_address returned
    mem_last,     \* the last MemoryAllocation call: request, kernel answer, result
    dma_region,   \* the DmaRegion value: its phys, its element count and size
    dma_last,     \* the last DmaRegion call: its arguments and what it returned
    locks,        \* each spinlock (Mutex): the context that holds it, or 0
    running       \* each context: the operation it is in and the step it is at

heap_vars == <<head, nodes, live, heap_last, heap_ops, heap_region>>

vm_vars == <<vm_state, vm_id, caps_to_send, grant_calls, channel, vm_last,
             spawning, syscalls, address_spaces, objects>>

pt_vars == <<tables, frames_used, pt_mapped, pt_cur, pt_last, pt_ops>>

boot_vars == <<boot_pc, boot_tables, boot_va, boot_ret>>

mem_vars == <<mem_last, dma_region, dma_last>>

lock_vars == <<locks, running>>

vars == <<heap_vars, vm_vars, pt_vars, boot_vars, mem_vars, lock_vars>>

(***************************************************************************)
(* Bounds of the model.                                                    *)
(***************************************************************************)
\* heap calls explored after init
MaxHeapOps == 5

\* grants staged on one Vmspace
MaxGrants == 2

\* calls of create_object on one Vmspace
MaxObjects == 1

\* frames the physical frame allocator can hand out
MaxFrames == 5

\* elements of a DmaRegion<[T]>
MaxElements == 3

\* contexts (the boot path, trap handlers) that call into the kernel
MaxContexts == 2

Contexts == 1..MaxContexts

\* the spinlocks: the heap's inner Mutex<FreeList>, PAGE_TABLE_MANAGER and
\* PHYSICAL_MEMORY_ALLOCATOR
LockNames == {"inner", "PAGE_TABLE_MANAGER", "PHYSICAL_MEMORY_ALLOCATOR"}

\* PageTableManager calls explored
MaxPtOps == 2

(***************************************************************************)
(* 64-bit machine words (usize, PhysicalAddress, VirtualAddress), kept as  *)
(* four 16-bit limbs, most significant first, with wrapping arithmetic.    *)
(***************************************************************************)
Limb == 2 ^ 16

\* the word 0x aaaa bbbb cccc dddd
Word(a, b, c, d) == <<a, b, c, d>>

\* a non-negative integer below 2^31 as a word
word_of(n) == <<0, 0, n \div Limb, n % Limb>>

\* a + b, and whether it overflowed 64 bits
add_limbs(a, b) ==
    LET s4 == a[4] + b[4]
        s3 == a[3] + b[3] + (s4 \div Limb)
        s2 == a[2] + b[2] + (s3 \div Limb)
        s1 == a[1] + b[1] + (s2 \div Limb)
    IN [sum |-> <<s1 % Limb, s2 % Limb, s3 % Limb, s4 % Limb>>,
        overflow |-> s1 >= Limb]

\* a + b modulo 2^64: the address arithmetic of the walk and of the frame
\* allocator (a PPN shifted left by 12 plus an offset into the page, the
\* base of the frames plus a frame's distance), where no carry leaves the
\* word
word_add(a, b) == add_limbs(a, b).sum

\* w << n for 0 <= n < 16, wrapping
shl_small(w, n) ==
    LET up(i) == (w[i] * (2 ^ n)) % Limb
        in(i) == IF i = 4 THEN 0 ELSE w[i + 1] \div (2 ^ (16 - n))
    IN [i \in 1..4 |-> up(i) + in(i)]

\* w >> n for 0 <= n < 16
shr_small(w, n) ==
    LET down(i) == w[i] \div (2 ^ n)
        in(i) == IF i = 1 THEN 0 ELSE (w[i - 1] % (2 ^ n)) * (2 ^ (16 - n))
    IN [i \in 1..4 |-> down(i) + in(i)]

\* w << n, wrapping
RECURSIVE shl(_, _)
shl(w, n) ==
    IF n < 16 THEN shl_small(w, n)
    ELSE shl(<<w[2], w[3], w[4], 0>>, n - 16)

\* w >> n
RECURSIVE shr(_, _)
shr(w, n) ==
    IF n < 16 THEN shr_small(w, n)
    ELSE shr(<<0, w[1], w[2], w[3]>>, n - 16)

\* the low two limbs of w as an integer: w mod 2^31 needs w[3] < 2^15
low31(w) == (w[3] % (2 ^ 15)) * Limb + w[4]

\* bits lo .. lo+n-1 of w as an integer, for n <= 31
field(w, lo, n) == low31(shr(w, lo)) % (2 ^ n)

(***************************************************************************)
(* The free-list kernel heap.                                              *)
(***************************************************************************)
\* Option::None / the null pointer
NULL == 0

\* core::mem::size_of::<FreeListNode>(): next (8 bytes) + size (8 bytes), repr(C)
struct_size == 16

\* core::mem::size_of::<usize>() on the 64-bit target
usize_bytes == 8

\* the largest alignment alloc supports
max_align == 8

\* the smallest tail worth splitting off, besides its header
min_tail == 8

\* align_to_usize with the rounding left out
align_to_usize_identity(n) == n

\* (n + size_of::<usize>() - 1) & !(size_of::<usize>() - 1)
align_to_usize(n) ==
    (n + usize_bytes - 1) - ((n + usize_bytes - 1) % usize_bytes)

\* FreeListNode::data: the payload starts one header after the node
data(node) == node + struct_size

\* the regions init is called with: (origin, size); origins are 8-byte
\* aligned and non-null, as init's safety contract requires of a region
\* that is to hold FreeListNode headers
HeapRegions ==
    { <<4096, 4096>>, <<4104, 48>>, <<4104, 64>>, <<4096, 100>> }

\* the layouts alloc is called with
AllocSizes == {1, 8, 12, 16, 28}

AllocAligns == {1, 8, 16}

\* memory m with the header at address a set to v
store(m, a, v) == [x \in (DOMAIN m) \cup {a} |-> IF x = a THEN v ELSE m[x]]

\* FreeListNode::split with the new node placed self.size bytes after the
\* node, the node's header not counted
split_overlapping(m, node, new_size) ==
    IF ~(m[node].size > new_size + struct_size)
    THEN [panic |-> TRUE, nodes |-> m, new_node |-> NULL]
    ELSE LET aligned == align_to_usize(new_size)
             other_size == m[node].size - aligned - struct_size
             next_node == node + aligned
             m1 == store(m, node, [next |-> NULL, size |-> aligned])
         IN [panic |-> FALSE,
             nodes |-> store(m1, next_node,
                             [next |-> m[node].next, size |-> other_size]),
             new_node |-> next_node]

\* FreeListNode::split with the new node's own header not taken off the
\* remainder
split_forgets_header(m, node, new_size) ==
    LET aligned == align_to_usize(new_size)
        next_node == node + struct_size + aligned
        m1 == store(m, node, [next |-> NULL, size |-> aligned])
    IN [panic |-> FALSE,
        nodes |-> store(m1, next_node,
                        [next |-> m[node].next, size |-> m[node].size - aligned]),
        new_node |-> next_node]

\* FreeListNode::split on the node at address node
split(m, node, new_size) ==
    IF ~(m[node].size > new_size + struct_size)
    THEN [panic |-> TRUE, nodes |-> m, new_node |-> NULL]
    ELSE LET aligned == align_to_usize(new_size)
             other_size == m[node].size - aligned - struct_size
             next_node == node + struct_size + aligned
             m1 == store(m, node, [next |-> NULL, size |-> aligned])
         IN [panic |-> FALSE,
             nodes |-> store(m1, next_node,
                             [next |-> m[node].next, size |-> other_size]),
             new_node |-> next_node]

\* the end of the list with nothing found, taken for a broken list
list_exhausted_panics(h, m) ==
    [outcome |-> "panic", ptr |-> NULL, head |-> h, nodes |-> m]

\* the search loop reaching a node with no next: core::ptr::null_mut()
list_exhausted(h, m) ==
    [outcome |-> "null", ptr |-> NULL, head |-> h, nodes |-> m]

\* the search loop of alloc from node (reached through prev_node)
RECURSIVE alloc_loop(_, _, _, _, _)
alloc_loop(prev_node, node, size, h, m) ==
    LET n == m[node]
        enough_for_split == n.size >= size + struct_size + min_tail
    IN IF n.size >= size /\ ~enough_for_split
       THEN IF prev_node # NULL
            THEN [outcome |-> "ok", ptr |-> data(node), head |-> h,
                  nodes |-> [m EXCEPT ![prev_node].next = n.next]]
            ELSE IF n.next = NULL
                 THEN [outcome |-> "panic", ptr |-> NULL, head |-> h, nodes |-> m]
                 ELSE [outcome |-> "ok", ptr |-> data(node), head |-> n.next,
                       nodes |-> m]
       ELSE IF n.size >= size /\ enough_for_split
       THEN LET s == split(m, node, size)
            IN IF s.panic
               THEN [outcome |-> "panic", ptr |-> NULL, head |-> h, nodes |-> m]
               ELSE IF prev_node # NULL
                    THEN [outcome |-> "ok", ptr |-> data(node), head |-> h,
                          nodes |-> [s.nodes EXCEPT ![prev_node].next = s.new_node]]
                    ELSE [outcome |-> "ok", ptr |-> data(node),
                          head |-> s.new_node, nodes |-> s.nodes]
       ELSE IF n.next # NULL
            THEN alloc_loop(node, n.next, size, h, m)
            ELSE list_exhausted(h, m)

\* the nodes the search loop of alloc examines from node on, in order: it
\* stops at the first node whose size is at least size, or at the node that
\* has no next
RECURSIVE search_path(_, _, _)
search_path(node, size, m) ==
    IF m[node].size >= size \/ m[node].next = NULL
    THEN << node >>
    ELSE << node >> \o search_path(m[node].next, size, m)

\* GlobalAlloc::alloc on the heap (h, m) for Layout (layout_size, layout_align)
alloc_result(h, m, layout_size, layout_align) ==
    IF layout_align > max_align
    THEN [outcome |-> "panic", ptr |-> NULL, head |-> h, nodes |-> m]
    ELSE IF h = NULL
    THEN [outcome |-> "panic", ptr |-> NULL, head |-> h, nodes |-> m]
    ELSE alloc_loop(NULL, h, align_to_usize(layout_size), h, m)

\* GlobalAlloc::dealloc that merges the block with the head node when the
\* head node starts where the block ends
dealloc_result_coalescing(h, m, ptr) ==
    LET node == ptr - struct_size
    IN IF h # NULL /\ node + struct_size + m[node].size = h
       THEN [head |-> node,
             nodes |-> [m EXCEPT ![node] =
                          [next |-> m[h].next,
                           size |-> m[node].size + struct_size + m[h].size]]]
       ELSE [head |-> node, nodes |-> [m EXCEPT ![node].next = h]]

\* GlobalAlloc::dealloc that forgets to link the block back
dealloc_result_leak(h, m, ptr) == [head |-> h, nodes |-> m]

\* GlobalAlloc::dealloc of ptr on the heap (h, m)
dealloc_result(h, m, ptr) ==
    LET node == ptr - struct_size
    IN [head |-> node, nodes |-> [m EXCEPT ![node].next = h]]

heap_running == heap_last.outcome # "panic"

\* FreeListAllocator::init
init(origin, size) ==
    /\ heap_last.op = "new"
    /\ head' = origin
    /\ nodes' = store(nodes, origin, [next |-> NULL, size |-> size - struct_size])
    /\ live' = live
    /\ heap_last' = [op |-> "init", size |-> size, align |-> 0, ptr |-> origin,
                     outcome |-> "ok", pre_head |-> head, pre_nodes |-> nodes]
    /\ heap_ops' = heap_ops
    /\ heap_region' = <<origin, size>>

\* GlobalAlloc::alloc
alloc(layout_size, layout_align) ==
    /\ heap_running
    /\ heap_ops < MaxHeapOps
    /\ LET r == alloc_result(head, nodes, layout_size, layout_align)
       IN /\ head' = r.head
          /\ nodes' = r.nodes
          /\ live' = IF r.outcome = "ok"
                     THEN live \cup {[ptr |-> r.ptr, size |-> layout_size,
                                      block |-> r.nodes[r.ptr - struct_size].size]}
                     ELSE live
          /\ heap_last' = [op |-> "alloc", size |-> layout_size,
                           align |-> layout_align, ptr |-> r.ptr,
                           outcome |-> r.outcome,
                           pre_head |-> head, pre_nodes |-> nodes]
    /\ heap_ops' = heap_ops + 1
    /\ heap_region' = heap_region

\* GlobalAlloc::dealloc of a pointer the caller holds
dealloc(a) ==
    /\ heap_running
    /\ heap_ops < MaxHeapOps
    /\ a \in live
    /\ LET r == dealloc_result(head, nodes, a.ptr)
       IN /\ head' = r.head
          /\ nodes' = r.nodes
    /\ live' = live \ {a}
    /\ heap_last' = [op |-> "dealloc", size |-> a.size, align |-> 0,
                     ptr |-> a.ptr, outcome |-> "ok", block |-> a.block,
                     pre_head |-> head, pre_nodes |-> nodes]
    /\ heap_ops' = heap_ops + 1
    /\ heap_region' = heap_region

\* FreeListAllocator::new
heap_new ==
    /\ head = NULL
    /\ nodes = << >>
    /\ live = {}
    /\ heap_last = [op |-> "new", size |-> 0, align |-> 0, ptr |-> NULL,
                    outcome |-> "ok", pre_head |-> NULL, pre_nodes |-> << >>]
    /\ heap_ops = 0
    /\ heap_region = <<0, 0>>

HeapInitCall ==
    /\ \E r \in HeapRegions : init(r[1], r[2])
    /\ UNCHANGED <<vm_vars, pt_vars, boot_vars, mem_vars, lock_vars>>

HeapAlloc ==
    /\ \E s \in AllocSizes, al \in AllocAligns : alloc(s, al)
    /\ UNCHANGED <<vm_vars, pt_vars, boot_vars, mem_vars, lock_vars>>

HeapDealloc ==
    /\ \E a \in live : dealloc(a)
    /\ UNCHANGED <<vm_vars, pt_vars, boot_vars, mem_vars, lock_vars>>

HeapNext == HeapInitCall \/ HeapAlloc \/ HeapDealloc


(***************************************************************************)
(* Vmspace: staging of grants and the hand-off made by spawn.              *)
(***************************************************************************)
\* "done" as bytes
DONE == <<100, 111, 110, 101>>

\* the names grant is called with, as bytes: "", "a", "in", "done"
Names == { << >>, <<97>>, <<105, 110>>, DONE }

CapabilityPtrs == {3, 4}

CapabilityRightsSet == {"R", "RW"}

\* the errors a syscall can return
KErrors == {"InvalidArgument", "InvalidOperation"}

VmspaceObjectIds == {1}

Tids == {7}

\* the channel capability spawn_vmspace returns
ChannelCptrs == {9}

\* a message sent on the channel: IpcChannel::new_message(len), then
\* write(bytes) into its len bytes, then send
message(len, bytes) ==
    [kind |-> "MSG",
     body |-> [i \in 1..len |-> IF i <= Len(bytes) THEN bytes[i] ELSE 0]]

\* IpcChannel::send_capability(cap, rights)
capability(cap, rights) == [kind |-> "CAP", cptr |-> cap, rights |-> rights]

\* the hand-off with each capability sent before its name
RECURSIVE hand_off_cap_first(_)
hand_off_cap_first(caps) ==
    IF caps = << >>
    THEN << [call |-> "new_message", item |-> message(Len(DONE), DONE)],
            [call |-> "send", item |-> message(Len(DONE), DONE)] >>
    ELSE LET g == Head(caps)
         IN << [call |-> "send_capability", item |-> capability(g[2], g[3])],
               [call |-> "new_message", item |-> message(Len(g[1]), g[1])],
               [call |-> "send", item |-> message(Len(g[1]), g[1])] >>
            \o hand_off_cap_first(Tail(caps))

\* the syscalls spawn makes after spawn_vmspace, in order, each with the
\* item it puts on the channel when it is a send that succeeds
RECURSIVE hand_off(_)
hand_off(caps) ==
    IF caps = << >>
    THEN << [call |-> "new_message", item |-> message(Len(DONE), DONE)],
            [call |-> "send", item |-> message(Len(DONE), DONE)] >>
    ELSE LET g == Head(caps)
         IN << [call |-> "new_message", item |-> message(Len(g[1]), g[1])],
               [call |-> "send", item |-> message(Len(g[1]), g[1])],
               [call |-> "send_capability", item |-> capability(g[2], g[3])] >>
            \o hand_off(Tail(caps))

\* the child's side of the hand-off: it reads a message and stops when the
\* body is "done", else takes the message for a name, reads the capability
\* that follows it, and goes on; the pairs it has when it stops
RECURSIVE received(_)
received(ch) ==
    IF ch = << >> THEN << >>
    ELSE IF Head(ch).kind = "MSG" /\ Head(ch).body = DONE THEN << >>
    ELSE IF Len(ch) < 2 THEN << >>
    ELSE << <<Head(ch).body, ch[2]>> >> \o received(Tail(Tail(ch)))

\* Vec::push with the new entry put in front
staged_in_front(caps, name, cptr, rights) == << <<name, cptr, rights>> >> \o caps

\* caps_to_send.push((name.into(), cptr, rights))
staged(caps, name, cptr, rights) == Append(caps, <<name, cptr, rights>>)

\* the mappings create_object is called with: address, size, permissions
ObjectMappings == { <<8192, 4096, "RW">> }

\* the number of alloc_vmspace_object syscalls among calls
object_calls(calls) ==
    Cardinality({ i \in DOMAIN calls : calls[i] = "alloc_vmspace_object" })

\* spawn is not running: no (tid, cptr), no hand-off call made
NoSpawn == [tid |-> 0, cptr |-> 0, made |-> 0]

\* no Vmspace value exists yet
vm_none ==
    /\ vm_state = "none"
    /\ vm_id = 0
    /\ caps_to_send = << >>
    /\ grant_calls = << >>
    /\ channel = << >>
    /\ vm_last = [call |-> "none", kind |-> "none", failed |-> "none"]
    /\ spawning = NoSpawn
    /\ syscalls = << >>
    /\ address_spaces = {}
    /\ objects = << >>

\* Vmspace::new: create_vmspace().unwrap()
VmspaceNew ==
    /\ vm_state = "none"
    /\ \/ \E id \in VmspaceObjectIds :
             /\ vm_state' = "staging"
             /\ vm_id' = id
             /\ address_spaces' = address_spaces \cup {id}
             /\ vm_last' = [call |-> "new", kind |-> "Ok", failed |-> "none"]
       \/ /\ vm_state' = "panicked"
          /\ vm_id' = vm_id
          /\ address_spaces' = address_spaces
          /\ vm_last' = [call |-> "new", kind |-> "panic",
                         failed |-> "create_vmspace"]
    /\ caps_to_send' = << >>
    /\ syscalls' = Append(syscalls, "create_vmspace")
    /\ UNCHANGED <<grant_calls, channel, spawning, objects>>

\* Vmspace::create_object: alloc_vmspace_object maps the object into the
\* address space self.id names, or answers an error, which is returned
create_object(address, size, permissions) ==
    /\ vm_state = "staging"
    /\ object_calls(syscalls) < MaxObjects
    /\ syscalls' = Append(syscalls, "alloc_vmspace_object")
    /\ \/ /\ objects' = Append(objects, [id |-> vm_id, address |-> address,
                                         size |-> size,
                                         permissions |-> permissions])
          /\ vm_last' = [call |-> "create_object", kind |-> "Ok",
                         failed |-> "none"]
       \/ /\ objects' = objects
          /\ \E e \in KErrors :
                vm_last' = [call |-> "create_object", kind |-> "Err",
                            error |-> e, failed |-> "alloc_vmspace_object"]
    /\ UNCHANGED <<vm_state, vm_id, caps_to_send, grant_calls, channel,
                   spawning, address_spaces>>

\* Vmspace::grant
grant(name, cptr, rights) ==
    /\ vm_state = "staging"
    /\ Len(caps_to_send) < MaxGrants
    /\ caps_to_send' = staged(caps_to_send, name, cptr, rights)
    /\ grant_calls' = Append(grant_calls, <<name, cptr, rights>>)
    /\ vm_last' = [call |-> "grant", kind |-> "Ok", failed |-> "none"]
    /\ UNCHANGED <<vm_state, vm_id, channel, spawning, syscalls, address_spaces,
                   objects>>

\* Vmspace::spawn with spawn_vmspace failing: the error is returned
spawn_refused ==
    /\ vm_state = "staging"
    /\ \E e \in KErrors :
          vm_last' = [call |-> "spawn", kind |-> "Err", error |-> e,
                      failed |-> "spawn_vmspace"]
    /\ vm_state' = "failed"
    /\ syscalls' = Append(syscalls, "spawn_vmspace")
    /\ UNCHANGED <<vm_id, caps_to_send, grant_calls, channel, spawning,
                   address_spaces, objects>>

\* Vmspace::spawn with spawn_vmspace succeeding: self has been moved into
\* spawn, the child runs, and the channel of cptr is open; the hand-off has
\* not begun
spawn ==
    /\ vm_state = "staging"
    /\ \E tid \in Tids, cptr \in ChannelCptrs :
          spawning' = [tid |-> tid, cptr |-> cptr, made |-> 0]
    /\ vm_state' = "spawning"
    /\ syscalls' = Append(syscalls, "spawn_vmspace")
    /\ UNCHANGED <<vm_id, caps_to_send, grant_calls, channel, vm_last,
                   address_spaces, objects>>

\* the call of the hand-off spawn is about to make
next_call == hand_off(caps_to_send)[spawning.made + 1]

\* the next call of the hand-off succeeds: a send or send_capability puts
\* its item on the channel; after the send of "done" spawn returns
\* Ok((tid, cptr))
hand_off_made ==
    /\ vm_state = "spawning"
    /\ syscalls' = Append(syscalls, next_call.call)
    /\ channel' = IF next_call.call = "new_message" THEN channel
                  ELSE Append(channel, next_call.item)
    /\ IF spawning.made + 1 = Len(hand_off(caps_to_send))
       THEN /\ vm_state' = "spawned"
            /\ spawning' = NoSpawn
            /\ vm_last' = [call |-> "spawn", kind |-> "Ok",
                           tid |-> spawning.tid, cptr |-> spawning.cptr,
                           failed |-> "none"]
       ELSE /\ vm_state' = "spawning"
            /\ spawning' = [spawning EXCEPT !.made = @ + 1]
            /\ vm_last' = vm_last
    /\ UNCHANGED <<vm_id, caps_to_send, grant_calls, address_spaces, objects>>

\* the next call of the hand-off fails: its unwrap() panics, and what was
\* sent before stays sent
hand_off_failed ==
    /\ vm_state = "spawning"
    /\ syscalls' = Append(syscalls, next_call.call)
    /\ vm_state' = "panicked"
    /\ spawning' = NoSpawn
    /\ vm_last' = [call |-> "spawn", kind |-> "panic",
                   failed |-> next_call.call]
    /\ UNCHANGED <<vm_id, caps_to_send, grant_calls, channel, address_spaces,
                   objects>>

\* the Vmspace value goes out of scope before spawn: Vmspace has no Drop
\* impl, so its fields are dropped, the Vec is freed and no syscall is made
drop ==
    /\ vm_state = "staging"
    /\ vm_state' = "dropped"
    /\ caps_to_send' = << >>
    /\ vm_last' = [call |-> "drop", kind |-> "Ok", failed |-> "none"]
    /\ UNCHANGED <<vm_id, grant_calls, channel, spawning, syscalls,
                   address_spaces, objects>>

VmNew == VmspaceNew /\ UNCHANGED <<heap_vars, pt_vars, boot_vars, mem_vars, lock_vars>>

VmCreateObject ==
    /\ \E m \in ObjectMappings : create_object(m[1], m[2], m[3])
    /\ UNCHANGED <<heap_vars, pt_vars, boot_vars, mem_vars, lock_vars>>

VmGrant ==
    /\ \E n \in Names, c \in CapabilityPtrs, r \in CapabilityRightsSet :
          grant(n, c, r)
    /\ UNCHANGED <<heap_vars, pt_vars, boot_vars, mem_vars, lock_vars>>

VmSpawnRefused == spawn_refused /\ UNCHANGED <<heap_vars, pt_vars, boot_vars, mem_vars, lock_vars>>

VmSpawn == spawn /\ UNCHANGED <<heap_vars, pt_vars, boot_vars, mem_vars, lock_vars>>

VmHandOffMade == hand_off_made /\ UNCHANGED <<heap_vars, pt_vars, boot_vars, mem_vars, lock_vars>>

VmHandOffFailed == hand_off_failed /\ UNCHANGED <<heap_vars, pt_vars, boot_vars, mem_vars, lock_vars>>

VmDrop == drop /\ UNCHANGED <<heap_vars, pt_vars, boot_vars, mem_vars, lock_vars>>

VmNext ==
    \/ VmNew \/ VmCreateObject \/ VmGrant \/ VmSpawnRefused \/ VmSpawn
    \/ VmHandOffMade \/ VmHandOffFailed \/ VmDrop

(***************************************************************************)
(* Sv39 page tables (Sv39PageTable::map and the walk), after the           *)
(* specification's sections 3, 4.1 and 6.                                  *)
(***************************************************************************)
\* the translation granule, 4 KiB
PAGE_BYTES == 4096

\* PageSize -> the level its leaves sit at
level_of(size) ==
    CASE size = "Kilopage" -> 0
      [] size = "Megapage" -> 1
      [] size = "Gigapage" -> 2

\* the number of address bits a page of this size covers
page_bits(size) == 12 + 9 * level_of(size)

\* the index into the table of a level: bits 38:30, 29:21, 20:12
vpn(va, level) == field(va, 12 + 9 * level, 9)

\* whether addr is a multiple of the page size
is_aligned(addr, size) == field(addr, 0, page_bits(size)) = 0

\* an entry with the valid bit clear
INVALID_ENTRY == [valid |-> FALSE, perms |-> {}, ppn |-> word_of(0)]

\* a leaf entry: valid, permissions, and the PPN of the physical address
leaf_entry(phys, perms) == [valid |-> TRUE, perms |-> perms, ppn |-> shr(phys, 12)]

\* a branch entry: valid, no R/W/X, the PPN of the next table
branch_entry(phys) == [valid |-> TRUE, perms |-> {}, ppn |-> shr(phys, 12)]

is_leaf(e) == e.valid /\ (e.perms \cap {"R", "W", "X"}) # {}

\* the entry idx of the table at physical address tbl
entry_at(t, tbl, idx) ==
    IF tbl \in DOMAIN t /\ idx \in DOMAIN t[tbl] THEN t[tbl][idx]
    ELSE INVALID_ENTRY

\* the tables with entry idx of table tbl set to e
set_entry(t, tbl, idx, e) == [t EXCEPT ![tbl] = store(t[tbl], idx, e)]

\* Option<PhysicalAddress>
None == [some |-> FALSE, addr |-> word_of(0)]

Some(a) == [some |-> TRUE, addr |-> a]

\* translate: the walk from the table at tbl, which is of the given level
RECURSIVE translate_from(_, _, _, _)
translate_from(t, tbl, level, va) ==
    LET e == entry_at(t, tbl, vpn(va, level))
    IN IF ~e.valid THEN None
       ELSE IF is_leaf(e)
       THEN Some(word_add(shl(e.ppn, 12), word_of(field(va, 0, 12 + 9 * level))))
       ELSE IF level = 0 THEN None
       ELSE translate_from(t, shl(e.ppn, 12), level - 1, va)

(***************************************************************************)
(* The page-table manager.                                                 *)
(***************************************************************************)
\* MMIO_DEVICE_OFFSET = 0xFFFFFFE000000000
MMIO_DEVICE_OFFSET == Word(65535, 65504, 0, 0)

\* where the static PAGE_TABLE_ROOT lies in physical memory
PAGE_TABLE_ROOT == Word(0, 0, 32800, 0)

\* the first frame of the physical frame allocator
FRAME_BASE == Word(0, 0, 32832, 0)

\* the i-th frame the allocator hands out; frames are 4 KiB
frame(i) == word_add(FRAME_BASE, word_of(i * PAGE_BYTES))

\* PhysicalAddress::offset / VirtualAddress::offset: Self(self.0 + offset).
\* A build with overflow checks panics when the sum passes usize::MAX, a
\* build without them wraps
offset(addr, n, overflow_checks) ==
    LET s == add_limbs(addr, n)
    IN [panic |-> s.overflow /\ overflow_checks, addr |-> s.sum]

\* translate(virt) from the root
translate(t, va) == translate_from(t, PAGE_TABLE_ROOT, 2, va)

\* PhysicalMemoryAllocator::alloc: the next frame, or None when none is left
phys_alloc(used) ==
    [some |-> used < MaxFrames,
     phys |-> frame(used),
     used |-> IF used < MaxFrames THEN used + 1 ELSE used]

\* PageTableManager::new_phys_page: PHYSICAL_MEMORY_ALLOCATOR.lock(),
\* alloc().expect("we oom, rip"), and the guard dropped at the end of the
\* statement
new_phys_page(used) ==
    [panic |-> ~phys_alloc(used).some,
     phys |-> phys_alloc(used).phys,
     used |-> phys_alloc(used).used]

\* a frame that holds what an earlier owner left in it: read as a table, a
\* valid leaf at index 7
StaleTable ==
    7 :> [valid |-> TRUE, perms |-> {"R", "W", "X"}, ppn |-> Word(0, 0, 13, 57005)]

\* what the memory of a frame can hold when the allocator hands it out:
\* zeroes, or what was left in it
FrameContents == { << >>, StaleTable }

\* the closure without the write of Sv39PageTable::default(): the frame
\* phys is returned as a table with what it held
alloc_table_not_zeroed(t, phys) == t

\* the closure alloc_virtual and map_direct pass to map, after its
\* new_phys_page(): *virt = Sv39PageTable::default() overwrites the frame
\* phys with a table of 512 invalid entries
alloc_table(t, phys) == store(t, phys, << >>)

\* the f a caller passes to map_with_allocator, after it has taken the
\* frame phys: the alloc_table of Sv39PageTable::map returns a fresh zeroed
\* table (section 4.1 of the specification)
f_table(t, phys) == store(t, phys, << >>)

\* the arguments of one call of Sv39PageTable::map; f is the allocator of
\* tables it is called with: "manager" for the closures of the manager,
\* "caller" for the f of map_with_allocator
map_call(map_from, map_to, size, perms, f) ==
    [map_from |-> map_from, map_to |-> map_to, size |-> size, perms |-> perms,
     f |-> f]

\* Sv39PageTable::map below the table at tbl, which is of the given level,
\* as far as it gets without a new table: the leaf written, the request
\* refused, or an entry missing in the table tbl of the walk
RECURSIVE map_from_table(_, _, _, _, _, _, _)
map_from_table(t, tbl, level, target, map_from, map_to, perms) ==
    IF level = target
    THEN [result |-> "Ok", tbl |-> tbl, level |-> level,
          tables |-> set_entry(t, tbl, vpn(map_to, level),
                               leaf_entry(map_from, perms))]
    ELSE IF ~entry_at(t, tbl, vpn(map_to, level)).valid
    THEN [result |-> "missing", tbl |-> tbl, level |-> level, tables |-> t]
    ELSE IF is_leaf(entry_at(t, tbl, vpn(map_to, level)))
    THEN [result |-> "InvalidMapping", tbl |-> tbl, level |-> level, tables |-> t]
    ELSE map_from_table(t, shl(entry_at(t, tbl, vpn(map_to, level)).ppn, 12),
                        level - 1, target, map_from, map_to, perms)

\* the error kinds the specification names for a map with a misaligned
\* address: InvalidArgument (section 8, scenario 4) and InvalidMapping
\* (section 7)
MisalignedErrors == {"InvalidArgument", "InvalidMapping"}

\* Sv39PageTable::map on the root table, from its entry: the checks of the
\* arguments, then the walk; misaligned is the error kind a misaligned
\* address is answered with
sv39_map(t, c, misaligned) ==
    IF ~is_aligned(c.map_from, c.size) \/ ~is_aligned(c.map_to, c.size)
    THEN [result |-> misaligned, tbl |-> PAGE_TABLE_ROOT, level |-> 2,
          tables |-> t]
    ELSE IF "W" \in c.perms /\ "R" \notin c.perms
    THEN [result |-> "InvalidArgument", tbl |-> PAGE_TABLE_ROOT, level |-> 2,
          tables |-> t]
    ELSE map_from_table(t, PAGE_TABLE_ROOT, 2, level_of(c.size),
                        c.map_from, c.map_to, c.perms)

\* Sv39PageTable::unmap below the table at tbl: the walk to the leaf, whose
\* valid bit is cleared; no table is freed
RECURSIVE unmap_from_table(_, _, _, _)
unmap_from_table(t, tbl, level, va) ==
    LET idx == vpn(va, level)
        e == entry_at(t, tbl, idx)
    IN IF ~e.valid THEN t
       ELSE IF is_leaf(e)
       THEN set_entry(t, tbl, idx, [e EXCEPT !.valid = FALSE])
       ELSE IF level = 0 THEN t
       ELSE unmap_from_table(t, shl(e.ppn, 12), level - 1, va)

\* Sv39PageTable::unmap on the root table
sv39_unmap(t, va) == unmap_from_table(t, PAGE_TABLE_ROOT, 2, va)

\* Sv39PageTable::is_mapped on the root table: the walk, nothing written
sv39_is_mapped(t, va) == translate(t, va).some

\* va lies in the page of the given size that begins at map_to, as far as
\* the 39 bits go that the walk looks at
covers(map_to, size, va) ==
    field(va, page_bits(size), 39 - page_bits(size))
        = field(map_to, page_bits(size), 39 - page_bits(size))

\* the 4 KiB mappings in force after map has written the leaf of c: those
\* the leaf does not cover, and the one of c when it is a 4 KiB mapping
mapped_after_map(mapped, c) ==
    { p \in mapped : ~covers(c.map_to, c.size, p.map_to) }
    \cup (IF c.size = "Kilopage"
          THEN { [map_from |-> c.map_from, map_to |-> c.map_to] }
          ELSE {})

\* the 4 KiB mappings in force after unmap(va): those of other pages
mapped_after_unmap(mapped, va) ==
    { p \in mapped : ~covers(va, "Kilopage", p.map_to) }

\* the position of the context that is in a manager call. pc names the
\* access to the allocator or to the tables it is about to make: "idle" (in
\* no call), "alloc" (alloc_virtual before its new_phys_page()), "map" (at
\* the entry of Sv39PageTable::map, the root not yet read), "closure" (map
\* found no table and is about to call f, which takes a frame), "zero" (f
\* has the frame and the allocator's guard is dropped; the table is not yet
\* written into it), "link" (f has returned the table, its branch entry not
\* yet written), "walk" (the branch entry written, map goes on below it),
\* "done" (the call has ended). The rest is what the call keeps: its
\* arguments (record), whether the build checks overflow, the loop counter
\* and bound, the local map_to of map_mmio, the arguments of the map call it
\* is in, the table and level the walk is at, the frame f took, the frames
\* it has taken, what its map calls have answered, how it ended, the value
\* it returns, and the tables and the allocator as they were when it began
NoCall ==
    [pc |-> "idle", record |-> [op |-> "none"], overflow_checks |-> FALSE,
     idx |-> 0, n |-> 0, map_to |-> word_of(0),
     call |-> map_call(word_of(0), word_of(0), "Kilopage", {}, "manager"),
     tbl |-> PAGE_TABLE_ROOT, level |-> 2, phys |-> word_of(0),
     frames |-> << >>, maps |-> << >>, outcome |-> "returned",
     why |-> "none", pre_tables |-> << >>, pre_used |-> 0]

\* a manager call as it ends by a panic with the given message
manager_panic(m, why) ==
    [m EXCEPT !.cur.pc = "done", !.cur.outcome = "panic", !.cur.why = why]

\* a manager call as it returns the value ret
manager_returned_with(m, ret) ==
    [m EXCEPT !.cur.pc = "done", !.cur.outcome = "returned",
              !.cur.record = [ret |-> ret] @@ m.cur.record]

\* a manager call as it returns (): alloc_virtual_range, alloc_virtual,
\* map_direct, map_with_allocator and unmap_with_translation have no return
\* value
manager_returned(m) == manager_returned_with(m, "()")

\* PageTableManager::map_direct with the target mapped onto itself
map_direct_identity(m, map_from, map_to, size, perms) ==
    [m EXCEPT !.cur.pc = "map",
              !.cur.call = map_call(map_to, map_to, size, perms, "manager")]

\* PageTableManager::map_direct: the call of map on the root table with the
\* arguments as they are and the closure of the manager
map_direct(m, map_from, map_to, size, perms) ==
    [m EXCEPT !.cur.pc = "map",
              !.cur.call = map_call(map_from, map_to, size, perms, "manager")]

\* PageTableManager::alloc_virtual, up to its new_phys_page()
alloc_virtual(m, map_to, perms) ==
    [m EXCEPT !.cur.pc = "alloc",
              !.cur.call = map_call(word_of(0), map_to, "Kilopage", perms,
                                    "manager")]

\* PageTableManager::alloc_virtual from its new_phys_page() to the call of
\* map with the frame
alloc_virtual_frame(m) ==
    IF new_phys_page(m.used).panic
    THEN manager_panic(m, "we oom, rip")
    ELSE [m EXCEPT !.used = new_phys_page(m.used).used,
                   !.cur.pc = "map",
                   !.cur.call.map_from = new_phys_page(m.used).phys,
                   !.cur.frames = Append(@, new_phys_page(m.used).phys)]

\* the loop of alloc_virtual_range at its head, with every frame mapped at
\* start
alloc_virtual_loop_same_slice(m, start, perms) ==
    IF m.cur.idx >= m.cur.n
    THEN manager_returned(m)
    ELSE alloc_virtual(m, start, perms)

\* the loop of alloc_virtual_range at its head: the end of the range, or
\* start.offset(idx * 4096) and the call of alloc_virtual
alloc_virtual_loop(m, start, perms) ==
    IF m.cur.idx >= m.cur.n
    THEN manager_returned(m)
    ELSE IF offset(start, word_of(m.cur.idx * PAGE_BYTES),
                   m.cur.overflow_checks).panic
    THEN manager_panic(m, "attempt to add with overflow")
    ELSE alloc_virtual(m, offset(start, word_of(m.cur.idx * PAGE_BYTES),
                                 m.cur.overflow_checks).addr, perms)

\* PageTableManager::alloc_virtual_range, up to the first new_phys_page()
alloc_virtual_range(m, start, size, perms) ==
    IF size % PAGE_BYTES # 0
    THEN manager_panic(m, "bad map range size")
    ELSE alloc_virtual_loop([m EXCEPT !.cur.idx = 0,
                                      !.cur.n = size \div PAGE_BYTES],
                            start, perms)

\* the loop of map_mmio at its head, with every page mapped to the first
\* frame of the device
map_mmio_loop_same_frame(m, map_from, map_to) ==
    IF m.cur.idx >= m.cur.n
    THEN manager_returned_with(m, map_to)
    ELSE IF offset(map_to, word_of(m.cur.idx * PAGE_BYTES),
                   m.cur.overflow_checks).panic
    THEN manager_panic(m, "attempt to add with overflow")
    ELSE map_direct(m, map_from,
                    offset(map_to, word_of(m.cur.idx * PAGE_BYTES),
                           m.cur.overflow_checks).addr,
                    "Kilopage", {"R", "W"})

\* the loop of map_mmio at its head: the end of the device, where map_to is
\* returned, or the two offsets by idx * 4096 and the call of map_direct
map_mmio_loop(m, map_from, map_to) ==
    IF m.cur.idx >= m.cur.n
    THEN manager_returned_with(m, map_to)
    ELSE IF \/ offset(map_from, word_of(m.cur.idx * PAGE_BYTES),
                      m.cur.overflow_checks).panic
            \/ offset(map_to, word_of(m.cur.idx * PAGE_BYTES),
                      m.cur.overflow_checks).panic
    THEN manager_panic(m, "attempt to add with overflow")
    ELSE map_direct(m,
                    offset(map_from, word_of(m.cur.idx * PAGE_BYTES),
                           m.cur.overflow_checks).addr,
                    offset(map_to, word_of(m.cur.idx * PAGE_BYTES),
                           m.cur.overflow_checks).addr,
                    "Kilopage", {"R", "W"})

\* PageTableManager::map_mmio, up to the first call of map; a build with
\* overflow checks panics when map_from + MMIO_DEVICE_OFFSET passes
\* usize::MAX, a build without them wraps
map_mmio(m, map_from, size) ==
    IF size % PAGE_BYTES # 0
    THEN manager_panic(m, "bad mmio device size")
    ELSE IF add_limbs(map_from, MMIO_DEVICE_OFFSET).overflow
            /\ m.cur.overflow_checks
    THEN manager_panic(m, "attempt to add with overflow")
    ELSE map_mmio_loop(
            [m EXCEPT !.cur.idx = 0, !.cur.n = size \div PAGE_BYTES,
                      !.cur.map_to = add_limbs(map_from, MMIO_DEVICE_OFFSET).sum],
            map_from, add_limbs(map_from, MMIO_DEVICE_OFFSET).sum)

\* PageTableManager::map_with_allocator: the call of map on the root table
\* with the caller's allocator of tables f
map_with_allocator(m, map_from, map_to, page_size, perms, f) ==
    [m EXCEPT !.cur.pc = "map",
              !.cur.call = map_call(map_from, map_to, page_size, perms, f)]

\* PageTableManager::unmap_with_translation: unmap on the root table
unmap_with_translation(m, map_to) ==
    manager_returned([m EXCEPT !.tables = sv39_unmap(m.tables, map_to),
                               !.mapped = mapped_after_unmap(@, map_to)])

\* PageTableManager::is_mapped_with_translation: is_mapped on the root table
is_mapped_with_translation(m, addr) ==
    manager_returned_with(m, sv39_is_mapped(m.tables, addr))

\* what is kept of the Result a call of map has answered, which the
\* manager functions drop: whether it was Ok
answered(result) == IF result = "Ok" THEN "Ok" ELSE "Err"

\* a call of map has answered result, which the manager functions drop:
\* alloc_virtual_range and map_mmio go on with their loop, the others return
map_returned(m, result) ==
    IF m.cur.record.op = "alloc_virtual_range"
    THEN alloc_virtual_loop([m EXCEPT !.cur.maps = Append(@, answered(result)),
                                      !.cur.idx = @ + 1],
                            m.cur.record.start, m.cur.record.perms)
    ELSE IF m.cur.record.op = "map_mmio"
    THEN map_mmio_loop([m EXCEPT !.cur.maps = Append(@, answered(result)),
                                 !.cur.idx = @ + 1],
                       m.cur.record.map_from, m.cur.map_to)
    ELSE manager_returned([m EXCEPT !.cur.maps = Append(@, answered(result))])

\* what the walk of map has come to (r): an entry is missing and f is to be
\* called, or map is over, with the leaf written when r is Ok
map_walked(m, r) ==
    IF r.result = "missing"
    THEN [m EXCEPT !.cur.pc = "closure", !.cur.tbl = r.tbl,
                   !.cur.level = r.level]
    ELSE IF r.result = "Ok"
    THEN map_returned([m EXCEPT !.tables = r.tables,
                                !.mapped = mapped_after_map(@, m.cur.call)],
                      r.result)
    ELSE map_returned(m, r.result)

\* Sv39PageTable::map from where it is, at its entry or below the table it
\* linked last, to the next call of f or to its end
map_walk(m, misaligned) ==
    IF m.cur.pc = "map"
    THEN map_walked(m, sv39_map(m.tables, m.cur.call, misaligned))
    ELSE map_walked(m, map_from_table(m.tables, m.cur.tbl, m.cur.level,
                                      level_of(m.cur.call.size),
                                      m.cur.call.map_from, m.cur.call.map_to,
                                      m.cur.call.perms))

\* the call of f by map, up to the end of its new_phys_page(): the frame is
\* taken, holding what it held, and the allocator's guard is dropped
table_closure(m, held) ==
    IF new_phys_page(m.used).panic
    THEN manager_panic(m, "we oom, rip")
    ELSE [m EXCEPT !.used = new_phys_page(m.used).used,
                   !.cur.pc = "zero",
                   !.cur.phys = new_phys_page(m.used).phys,
                   !.cur.frames = Append(@, new_phys_page(m.used).phys),
                   !.tables = store(@, new_phys_page(m.used).phys, held)]

\* the rest of f: the table is written into the frame and returned to map
table_written(m) ==
    [m EXCEPT !.cur.pc = "link",
              !.tables = IF m.cur.call.f = "manager"
                         THEN alloc_table(m.tables, m.cur.phys)
                         ELSE f_table(m.tables, m.cur.phys)]

\* map writes the branch entry that points to the table f returned and
\* goes below it
link_table(m) ==
    [m EXCEPT !.tables = set_entry(m.tables, m.cur.tbl,
                                   vpn(m.cur.call.map_to, m.cur.level),
                                   branch_entry(m.cur.phys)),
              !.cur.pc = "walk",
              !.cur.tbl = m.cur.phys,
              !.cur.level = @ - 1]

\* the arguments map_direct is called with
MapDirectInputs ==
    { <<Word(0, 0, 0, 4096), Word(0, 0, 0, 8192), "Kilopage", {"R", "W"}>>,
      <<Word(0, 0, 0, 4097), Word(0, 0, 0, 8192), "Kilopage", {"R", "W"}>>,
      <<Word(0, 0, 0, 12288), Word(0, 0, 0, 8192), "Kilopage", {"R", "X"}>>,
      <<Word(0, 0, 32, 0), Word(0, 0, 32, 0), "Megapage", {"R", "X", "U"}>>,
      <<Word(0, 0, 32, 0), Word(65535, 65504, 4096, 0), "Megapage", {"R"}>> }

\* the arguments map_mmio is called with, and whether the build checks
\* overflow: 0x10000000 for no page, one page and two pages,
\* 0x10000004, 0x2000000000 (whose window begins past the end of the
\* address space), and in either build 0x1FFFFFF000 (the last page of the
\* window)
MapMmioInputs ==
    { <<Word(0, 0, 4096, 0), 0, TRUE>>,
      <<Word(0, 0, 4096, 0), 4096, FALSE>>,
      <<Word(0, 0, 4096, 0), 8192, TRUE>>,
      <<Word(0, 0, 4096, 4), 4096, TRUE>>,
      <<Word(0, 32, 0, 0), 4096, TRUE>>,
      <<Word(0, 31, 65535, 61440), 8192, TRUE>>,
      <<Word(0, 31, 65535, 61440), 8192, FALSE>> }

\* the arguments alloc_virtual is called with
AllocVirtualInputs ==
    { <<Word(0, 0, 0, 8192), {"R", "W"}>>,
      <<Word(0, 0, 0, 10240), {"R"}>> }

\* the arguments alloc_virtual_range is called with, and whether the build
\* checks overflow; the last range, in either build, starts at the last
\* page of the address space
AllocVirtualRangeInputs ==
    { <<Word(0, 0, 0, 8192), 8192, {"R", "W"}, TRUE>>,
      <<Word(0, 0, 0, 8192), 100, {"R", "W"}, FALSE>>,
      <<Word(0, 0, 0, 10240), 8192, {"R", "W"}, FALSE>>,
      <<Word(0, 0, 32, 0), 4096, {"R", "W"}, TRUE>>,
      <<Word(65535, 65535, 65535, 61440), 8192, {"R", "W"}, TRUE>>,
      <<Word(65535, 65535, 65535, 61440), 8192, {"R", "W"}, FALSE>> }

\* the arguments map_with_allocator is called with, but for f
MapWithAllocatorInputs ==
    { <<Word(0, 0, 0, 24576), Word(0, 0, 16384, 0), "Kilopage", {"R", "W"}>> }

\* the addresses unmap_with_translation is called with
UnmapInputs ==
    { Word(0, 0, 0, 8192), Word(0, 0, 32, 0) }

\* the address is_mapped_with_translation is called with
IsMappedInputs ==
    { Word(0, 0, 0, 8192) }

\* the root table of Sv39PageTable::new(), no frame handed out, and no
\* context in a manager call
pt_new ==
    /\ tables = [a \in {PAGE_TABLE_ROOT} |-> << >>]
    /\ frames_used = 0
    /\ pt_mapped = {}
    /\ pt_cur = NoCall
    /\ pt_last = [op |-> "none", outcome |-> "returned"]
    /\ pt_ops = 0

\* a context may call the manager: the calls are made one after the other
\* (section 4.2 of the specification has the root behind the manager's
\* mutex; what the code does about that lock is the subject of
\* SpecManagerLock) and the kernel has not panicked
pt_may_call ==
    /\ pt_cur.pc = "idle"
    /\ pt_last.outcome # "panic"
    /\ pt_ops < MaxPtOps

\* a context as it enters a manager call with the arguments of record
entered(record, overflow_checks) ==
    [cur |-> [NoCall EXCEPT !.pc = "entered", !.record = record,
                            !.overflow_checks = overflow_checks,
                            !.pre_tables = tables, !.pre_used = frames_used],
     tables |-> tables, used |-> frames_used, mapped |-> pt_mapped]

\* the context in a manager call where it is now
at_pc ==
    [cur |-> pt_cur, tables |-> tables, used |-> frames_used,
     mapped |-> pt_mapped]

\* what pt_last keeps of a call that has ended
ended(cur) ==
    [outcome |-> cur.outcome, why |-> cur.why, maps |-> cur.maps,
     frames |-> cur.frames, pre_tables |-> cur.pre_tables,
     pre_used |-> cur.pre_used] @@ cur.record

\* a step of a manager call to m: the tables, the allocator and the
\* position of the call; a call that has ended is recorded
pt_step(m) ==
    /\ tables' = m.tables
    /\ frames_used' = m.used
    /\ pt_mapped' = m.mapped
    /\ pt_cur' = IF m.cur.pc = "done" THEN NoCall ELSE m.cur
    /\ pt_last' = IF m.cur.pc = "done" THEN ended(m.cur) ELSE pt_last

PtMapDirect ==
    /\ pt_may_call
    /\ \E a \in MapDirectInputs :
          pt_step(map_direct(entered([op |-> "map_direct", map_from |-> a[1],
                                      map_to |-> a[2], size |-> a[3],
                                      perms |-> a[4]], FALSE),
                             a[1], a[2], a[3], a[4]))
    /\ pt_ops' = pt_ops + 1
    /\ UNCHANGED <<heap_vars, vm_vars, boot_vars, mem_vars, lock_vars>>

PtMapMmio ==
    /\ pt_may_call
    /\ \E a \in MapMmioInputs :
          pt_step(map_mmio(entered([op |-> "map_mmio", map_from |-> a[1],
                                    size |-> a[2]], a[3]),
                           a[1], a[2]))
    /\ pt_ops' = pt_ops + 1
    /\ UNCHANGED <<heap_vars, vm_vars, boot_vars, mem_vars, lock_vars>>

PtAllocVirtual ==
    /\ pt_may_call
    /\ \E a \in AllocVirtualInputs :
          pt_step(alloc_virtual(entered([op |-> "alloc_virtual",
                                         map_to |-> a[1], perms |-> a[2]],
                                        FALSE),
                                a[1], a[2]))
    /\ pt_ops' = pt_ops + 1
    /\ UNCHANGED <<heap_vars, vm_vars, boot_vars, mem_vars, lock_vars>>

PtAllocVirtualRange ==
    /\ pt_may_call
    /\ \E a \in AllocVirtualRangeInputs :
          pt_step(alloc_virtual_range(
                     entered([op |-> "alloc_virtual_range", start |-> a[1],
                              size |-> a[2], perms |-> a[3]], a[4]),
                     a[1], a[2], a[3]))
    /\ pt_ops' = pt_ops + 1
    /\ UNCHANGED <<heap_vars, vm_vars, boot_vars, mem_vars, lock_vars>>

PtMapWithAllocator ==
    /\ pt_may_call
    /\ \E a \in MapWithAllocatorInputs :
          pt_step(map_with_allocator(
                     entered([op |-> "map_with_allocator", map_from |-> a[1],
                              map_to |-> a[2], size |-> a[3], perms |-> a[4]],
                             FALSE),
                     a[1], a[2], a[3], a[4], "caller"))
    /\ pt_ops' = pt_ops + 1
    /\ UNCHANGED <<heap_vars, vm_vars, boot_vars, mem_vars, lock_vars>>

PtUnmapWithTranslation ==
    /\ pt_may_call
    /\ \E va \in UnmapInputs :
          pt_step(unmap_with_translation(
                     entered([op |-> "unmap_with_translation", map_to |-> va],
                             FALSE), va))
    /\ pt_ops' = pt_ops + 1
    /\ UNCHANGED <<heap_vars, vm_vars, boot_vars, mem_vars, lock_vars>>

PtIsMappedWithTranslation ==
    /\ pt_may_call
    /\ \E va \in IsMappedInputs :
          pt_step(is_mapped_with_translation(
                     entered([op |-> "is_mapped_with_translation", addr |-> va],
                             FALSE), va))
    /\ pt_ops' = pt_ops + 1
    /\ UNCHANGED <<heap_vars, vm_vars, boot_vars, mem_vars, lock_vars>>

\* alloc_virtual takes the frame it is going to map
PtNewPhysPage ==
    /\ pt_cur.pc = "alloc"
    /\ pt_step(alloc_virtual_frame(at_pc))
    /\ UNCHANGED <<pt_ops, heap_vars, vm_vars, boot_vars, mem_vars, lock_vars>>

\* Sv39PageTable::map walks the tables
PtMapWalk ==
    /\ pt_cur.pc \in {"map", "walk"}
    /\ \E misaligned \in MisalignedErrors : pt_step(map_walk(at_pc, misaligned))
    /\ UNCHANGED <<pt_ops, heap_vars, vm_vars, boot_vars, mem_vars, lock_vars>>

\* map calls f for a table: f takes a frame
PtTableClosure ==
    /\ pt_cur.pc = "closure"
    /\ \E held \in FrameContents : pt_step(table_closure(at_pc, held))
    /\ UNCHANGED <<pt_ops, heap_vars, vm_vars, boot_vars, mem_vars, lock_vars>>

\* f writes the table into its frame and returns it
PtTableWritten ==
    /\ pt_cur.pc = "zero"
    /\ pt_step(table_written(at_pc))
    /\ UNCHANGED <<pt_ops, heap_vars, vm_vars, boot_vars, mem_vars, lock_vars>>

\* map links the table f returned
PtLinkTable ==
    /\ pt_cur.pc = "link"
    /\ pt_step(link_table(at_pc))
    /\ UNCHANGED <<pt_ops, heap_vars, vm_vars, boot_vars, mem_vars, lock_vars>>

\* PHYSICAL_MEMORY_ALLOCATOR.lock().alloc() by another context, whenever
\* the lock is free
PtPhysAlloc ==
    /\ pt_last.outcome # "panic"
    /\ frames_used' = phys_alloc(frames_used).used
    /\ UNCHANGED <<tables, pt_mapped, pt_cur, pt_last, pt_ops>>
    /\ UNCHANGED <<heap_vars, vm_vars, boot_vars, mem_vars, lock_vars>>

PtNext ==
    \/ PtMapDirect \/ PtMapMmio \/ PtAllocVirtual \/ PtAllocVirtualRange
    \/ PtMapWithAllocator \/ PtUnmapWithTranslation
    \/ PtIsMappedWithTranslation
    \/ PtNewPhysPage \/ PtMapWalk \/ PtTableClosure \/ PtTableWritten
    \/ PtLinkTable
    \/ PtPhysAlloc

(***************************************************************************)
(* MemoryAllocation and DmaRegion (librust/src/mem.rs).                    *)
(***************************************************************************)
\* usize::MAX
USIZE_MAX == Word(65535, 65535, 65535, 65535)

\* the sizes the allocation calls are made with
AllocationSizes == {1, 4096, 8192}

\* what the alloc_virtual_memory syscall answers: Ok((cptr, ptr)) or Err
CapabilityHandles == { word_of(0), word_of(5), USIZE_MAX }

UserPointers == { Word(0, 64, 0, 0), Word(0, 64, 0, 8192) }

SyscallErrors == {"InvalidArgument", "OutOfMemory"}

SyscallAnswers ==
    { [ok |-> TRUE, cptr |-> c, ptr |-> q, error |-> "none"] :
        c \in CapabilityHandles, q \in UserPointers }
    \cup { [ok |-> FALSE, cptr |-> word_of(0), ptr |-> word_of(0), error |-> e] :
             e \in SyscallErrors }

\* MemoryAllocation::new: the request made of alloc_virtual_memory and,
\* from the kernel's answer, Ok(Self { cptr, ptr }) or the error
new(size, options, permissions, answer) ==
    [request |-> [size |-> size, options |-> options, permissions |-> permissions],
     kind |-> IF answer.ok THEN "Ok" ELSE "Err",
     cptr |-> answer.cptr, ptr |-> answer.ptr, error |-> answer.error]

\* MemoryAllocation::public_rw
public_rw(size, answer) == new(size, "NONE", {"READ", "WRITE"}, answer)

\* private_rw that keeps the handle the kernel returned
private_rw_keeps_handle(size, answer) ==
    new(size, "PRIVATE", {"READ", "WRITE"}, answer)

\* MemoryAllocation::private_rw: new(..).map(|s| s.cptr = usize::MAX)
private_rw(size, answer) ==
    LET s == new(size, "PRIVATE", {"READ", "WRITE"}, answer)
    IN IF s.kind = "Ok" THEN [s EXCEPT !.cptr = USIZE_MAX] ELSE s

\* the physical bases alloc_dma_memory answers with: 0x80200000, 0xFFFF0000
DmaBases == { Word(0, 0, 32800, 0), Word(0, 0, 65535, 0) }

\* size_of::<T>() of the element types tried
ElementSizes == {0, 1, 8, 24}

\* what the alloc_dma_memory syscall answers: Ok((phys, virt)) or Err
DmaAnswers ==
    { [ok |-> TRUE, phys |-> b, error |-> "none"] : b \in DmaBases }
    \cup { [ok |-> FALSE, phys |-> word_of(0), error |-> e] : e \in SyscallErrors }

\* no DmaRegion value
NoRegion ==
    [state |-> "none", slice |-> FALSE, phys |-> word_of(0), len |-> 0,
     size_of |-> 0]

\* no MemoryAllocation call made, no DmaRegion yet
mem_new ==
    /\ mem_last = [call |-> "none"]
    /\ dma_region = NoRegion
    /\ dma_last = [call |-> "none"]

\* a DmaRegion constructor: the request made of alloc_dma_memory and, from
\* the kernel's answer, Ok(Self { phys, virt }) or the error and no region
dma_alloc(size, zero, answer, region) ==
    [request |-> [size |-> size, options |-> IF zero THEN "ZERO" ELSE "NONE"],
     kind |-> IF answer.ok THEN "Ok" ELSE "Err",
     error |-> answer.error,
     region |-> IF answer.ok THEN region ELSE NoRegion]

\* DmaRegion::new_many / zeroed_many: n_elements * size_of::<T>() bytes,
\* Self { phys, virt: slice of n_elements } of MaybeUninit<T>
new_many(n_elements, size_of_T, zero, answer) ==
    dma_alloc(n_elements * size_of_T, zero, answer,
              [state |-> "uninit", slice |-> TRUE, phys |-> answer.phys,
               len |-> n_elements, size_of |-> size_of_T])

\* DmaRegion::<[U]>::new_raw: the metadata is the element count,
\* size_of_val_raw is metadata * size_of::<U>(), and the region is a
\* DmaRegion<[U]> at once
new_raw(metadata, size_of_U, zero, answer) ==
    dma_alloc(metadata * size_of_U, zero, answer,
              [state |-> "init", slice |-> TRUE, phys |-> answer.phys,
               len |-> metadata, size_of |-> size_of_U])

\* DmaRegion::new / zeroed: one MaybeUninit<T>, no slice
new_one(size_of_T, zero, answer) ==
    dma_alloc(size_of_T, zero, answer,
              [state |-> "uninit", slice |-> FALSE, phys |-> answer.phys,
               len |-> 1, size_of |-> size_of_T])

\* DmaRegion::assume_init: the same phys and length
assume_init(region) == [region EXCEPT !.state = "init"]

\* DmaRegion::physical_address
physical_address(region) == region.phys

\* DmaRegion::get with the bounds check off by one
get_off_by_one(region, index, overflow_checks) ==
    LET sum == add_limbs(region.phys, word_of(region.size_of * index))
    IN IF index <= region.len
       THEN [panic |-> sum.overflow /\ overflow_checks, ret |-> Some(sum.sum)]
       ELSE [panic |-> FALSE, ret |-> None]

\* DmaRegion::get: Some(DmaElement { phys: self.phys.0 + size_of::<T>() *
\* index, .. }) when index < len, the element given by its phys; the
\* addition panics in a build with overflow checks when it passes usize::MAX
get(region, index, overflow_checks) ==
    LET sum == add_limbs(region.phys, word_of(region.size_of * index))
    IN IF index < region.len
       THEN [panic |-> sum.overflow /\ overflow_checks, ret |-> Some(sum.sum)]
       ELSE [panic |-> FALSE, ret |-> None]

MemPublicRw ==
    /\ \E size \in AllocationSizes, answer \in SyscallAnswers :
          mem_last' = [call |-> "public_rw", answer |-> answer,
                       ret |-> public_rw(size, answer)]
    /\ UNCHANGED <<dma_region, dma_last>>
    /\ UNCHANGED <<heap_vars, vm_vars, pt_vars, boot_vars, lock_vars>>

MemPrivateRw ==
    /\ \E size \in AllocationSizes, answer \in SyscallAnswers :
          mem_last' = [call |-> "private_rw", answer |-> answer,
                       ret |-> private_rw(size, answer)]
    /\ UNCHANGED <<dma_region, dma_last>>
    /\ UNCHANGED <<heap_vars, vm_vars, pt_vars, boot_vars, lock_vars>>

\* a constructor returned r: the region is there when the syscall succeeded
dma_call(name, r) ==
    /\ dma_region' = r.region
    /\ dma_last' = [call |-> name, request |-> r.request, kind |-> r.kind,
                    error |-> r.error, phys |-> r.region.phys]

DmaNewMany ==
    /\ dma_region.state = "none"
    /\ \E n \in 0..MaxElements, s \in ElementSizes, answer \in DmaAnswers,
          zero \in BOOLEAN :
          dma_call(IF zero THEN "zeroed_many" ELSE "new_many",
                   new_many(n, s, zero, answer))
    /\ UNCHANGED mem_last
    /\ UNCHANGED <<heap_vars, vm_vars, pt_vars, boot_vars, lock_vars>>

DmaNewRaw ==
    /\ dma_region.state = "none"
    /\ \E n \in 0..MaxElements, s \in ElementSizes, answer \in DmaAnswers,
          zero \in BOOLEAN :
          dma_call("new_raw", new_raw(n, s, zero, answer))
    /\ UNCHANGED mem_last
    /\ UNCHANGED <<heap_vars, vm_vars, pt_vars, boot_vars, lock_vars>>

DmaNew ==
    /\ dma_region.state = "none"
    /\ \E s \in ElementSizes, answer \in DmaAnswers, zero \in BOOLEAN :
          dma_call(IF zero THEN "zeroed" ELSE "new", new_one(s, zero, answer))
    /\ UNCHANGED mem_last
    /\ UNCHANGED <<heap_vars, vm_vars, pt_vars, boot_vars, lock_vars>>

DmaAssumeInit ==
    /\ dma_region.state = "uninit"
    /\ dma_region' = assume_init(dma_region)
    /\ dma_last' = [call |-> "assume_init", phys |-> dma_region.phys]
    /\ UNCHANGED mem_last
    /\ UNCHANGED <<heap_vars, vm_vars, pt_vars, boot_vars, lock_vars>>

DmaGet ==
    /\ dma_region.state # "none"
    /\ dma_region.slice
    /\ \E index \in 0..(MaxElements + 1), overflow_checks \in BOOLEAN :
          LET r == get(dma_region, index, overflow_checks)
          IN dma_last' = [call |-> "get", index |-> index,
                          phys |-> dma_region.phys,
                          panic |-> r.panic, ret |-> r.ret]
    /\ UNCHANGED <<dma_region, mem_last>>
    /\ UNCHANGED <<heap_vars, vm_vars, pt_vars, boot_vars, lock_vars>>

MemNext ==
    \/ MemPublicRw \/ MemPrivateRw
    \/ DmaNewMany \/ DmaNewRaw \/ DmaNew \/ DmaAssumeInit \/ DmaGet

(***************************************************************************)
(* The spinlocks: which statements of an operation take a lock, touch the  *)
(* free list or the root table, and return.                                *)
(***************************************************************************)
\* the statements of an operation, as far as the locks go
acquire(l) == [do |-> "lock", on |-> l]

release(l) == [do |-> "unlock", on |-> l]

read(x) == [do |-> "read", on |-> x]

write(x) == [do |-> "write", on |-> x]

local == [do |-> "local", on |-> "none"]

ret == [do |-> "return", on |-> "none"]

\* FreeListAllocator::init: lock, head = Some(origin), head.unwrap(),
\* the store of the first node, return (the guard is dropped)
init_steps ==
    << acquire("inner"), write("free_list"), read("free_list"),
       write("free_list"), ret >>

\* FreeListAllocator::alloc: lock, align_to_usize and the alignment test,
\* this.head, the nodes the loop visits, the unlink or split when a node
\* fits, return
alloc_steps(visits, fits) ==
    << acquire("inner"), local, read("free_list") >>
    \o [i \in 1..visits |-> read("free_list")]
    \o (IF fits THEN << write("free_list") >> ELSE << >>)
    \o << ret >>

\* dealloc with the head read before the lock is taken
dealloc_steps_late_lock ==
    << local, read("free_list"), acquire("inner"), write("free_list"),
       write("free_list"), ret >>

\* FreeListAllocator::dealloc: the null assertion, lock, the node address,
\* inner.head read, (*ptr).next written, inner.head written, return
dealloc_steps ==
    << local, acquire("inner"), local, read("free_list"), write("free_list"),
       write("free_list"), ret >>

\* the heap operations a context can be in
HeapPrograms ==
    { [op |-> "init", steps |-> init_steps],
      [op |-> "dealloc", steps |-> dealloc_steps] }
    \cup { [op |-> "alloc", steps |-> alloc_steps(v, f)] :
             v \in 1..2, f \in BOOLEAN }

\* a panic: the panic handler exits the platform, no context goes on
panic(msg) == [do |-> "panic", on |-> msg]

\* PageTableManager::new_phys_page: PHYSICAL_MEMORY_ALLOCATOR.lock(),
\* alloc(), and the guard dropped before the function returns
new_phys_page_steps ==
    << acquire("PHYSICAL_MEMORY_ALLOCATOR"), write("frames"),
       release("PHYSICAL_MEMORY_ALLOCATOR") >>

\* new_phys_page when alloc() returns None: expect("we oom, rip") panics
\* inside the statement, the guard of the allocator still alive
new_phys_page_oom_steps ==
    << acquire("PHYSICAL_MEMORY_ALLOCATOR"), read("frames"),
       panic("we oom, rip") >>

\* the closure passed to map: new_phys_page(), then *virt =
\* Sv39PageTable::default() through phys2virt
table_closure_steps == new_phys_page_steps \o << write("frame") >>

\* what the f of a caller of map_with_allocator does: it hands out a table
\* of an arena of its own, or takes a frame from PHYSICAL_MEMORY_ALLOCATOR
\* and writes it as the closure of the manager does
AllocatorsOfCaller == {"arena", "PHYSICAL_MEMORY_ALLOCATOR"}

f_steps(f) == IF f = "arena" THEN << local >> ELSE table_closure_steps

\* PAGE_TABLE_ROOT.get() and Sv39PageTable::map on it: the walk reads the
\* tree, calls the closure for each of the k tables that are missing and
\* links it, and writes the leaf
RECURSIVE link_steps(_, _)
link_steps(k, closure) ==
    IF k = 0 THEN << >>
    ELSE closure \o << write("root"), read("root") >>
         \o link_steps(k - 1, closure)

map_steps(k) ==
    << read("root") >> \o link_steps(k, table_closure_steps)
    \o << write("root") >>

\* PageTableManager::alloc_virtual
alloc_virtual_steps(k) == new_phys_page_steps \o map_steps(k)

\* PageTableManager::map_direct
map_direct_steps(k) == map_steps(k)

\* the loop of alloc_virtual_range: alloc_virtual for each page, missing[i]
\* being the number of tables the walk for page i finds missing
RECURSIVE alloc_virtual_each(_)
alloc_virtual_each(missing) ==
    IF missing = << >> THEN << >>
    ELSE alloc_virtual_steps(Head(missing)) \o alloc_virtual_each(Tail(missing))

\* PageTableManager::alloc_virtual_range of Len(missing) pages: the
\* assertion, then the loop
alloc_virtual_range_steps(missing) == << local >> \o alloc_virtual_each(missing)

\* the loop of map_mmio: map_direct for each page
RECURSIVE map_direct_each(_)
map_direct_each(missing) ==
    IF missing = << >> THEN << >>
    ELSE map_direct_steps(Head(missing)) \o map_direct_each(Tail(missing))

\* PageTableManager::map_mmio of Len(missing) pages: the assertion, map_to,
\* then the loop
map_mmio_steps(missing) == << local, local >> \o map_direct_each(missing)

\* the tables missing on the walk of each page of a range: no page, one
\* page, two pages in one 2 MiB region, two pages on either side of a 2 MiB
\* boundary
RangeMissing == { << >>, <<2>>, <<2, 0>>, <<1, 1>> }

\* PageTableManager::map_with_allocator: map on the root with the caller's
\* allocator f, called for each of the k tables that are missing
map_with_allocator_steps(k, f) ==
    << read("root") >> \o link_steps(k, f_steps(f)) \o << write("root") >>

\* PageTableManager::unmap_with_translation
unmap_with_translation_steps == << read("root"), write("root") >>

\* PageTableManager::is_mapped_with_translation
is_mapped_with_translation_steps == << read("root") >>

\* the operations of PageTableManager that touch the root table
ManagerOps ==
    { "alloc_virtual_range", "alloc_virtual", "map_direct", "map_mmio",
      "map_with_allocator", "unmap_with_translation",
      "is_mapped_with_translation" }

\* the statements of the operations, by the tables their walks find
\* missing
ManagerBodies ==
    { <<"alloc_virtual", alloc_virtual_steps(k)>> : k \in 0..2 }
    \cup { <<"map_direct", map_direct_steps(k)>> : k \in 0..2 }
    \cup { <<"alloc_virtual_range", alloc_virtual_range_steps(m)>> :
             m \in RangeMissing }
    \cup { <<"map_mmio", map_mmio_steps(m)>> : m \in RangeMissing }
    \cup { <<"map_with_allocator", map_with_allocator_steps(k, f)>> :
             k \in 0..1, f \in AllocatorsOfCaller }
    \cup { <<"unmap_with_translation", unmap_with_translation_steps>>,
           <<"is_mapped_with_translation", is_mapped_with_translation_steps>> }

\* the statements of an operation that asks the allocator for frames, when
\* the last of its requests finds no frame left
out_of_frames(body) ==
    LET asks == { i \in DOMAIN body :
                    body[i] = acquire("PHYSICAL_MEMORY_ALLOCATOR") }
        last == CHOOSE i \in asks : \A j \in asks : j <= i
    IN SubSeq(body, 1, last - 1) \o new_phys_page_oom_steps

\* where a caller has its &mut PageTableManager from: the guard of
\* PAGE_TABLE_MANAGER.lock(), or a value of the public unit struct
\* PageTableManager, for which no lock is taken
Receivers == {"PAGE_TABLE_MANAGER.lock()", "PageTableManager"}

\* a call of a PageTableManager operation on the receiver self; the guard of
\* PAGE_TABLE_MANAGER.lock() is dropped after the call
method_call(op, self, body) ==
    [op |-> op,
     steps |-> IF self = "PAGE_TABLE_MANAGER.lock()"
               THEN << acquire("PAGE_TABLE_MANAGER") >> \o body \o << ret >>
               ELSE body \o << ret >>]

\* the PageTableManager operations a context can be in, each as it runs and,
\* when it asks the allocator for frames, as it ends when a request fails,
\* and PHYSICAL_MEMORY_ALLOCATOR.lock().alloc() made outside the manager
ManagerPrograms ==
    { method_call(b[1], self, b[2]) : b \in ManagerBodies, self \in Receivers }
    \cup { method_call(b[1], self, out_of_frames(b[2])) :
              b \in { x \in ManagerBodies :
                        \E i \in DOMAIN x[2] :
                           x[2][i] = acquire("PHYSICAL_MEMORY_ALLOCATOR") },
              self \in Receivers }
    \cup { [op |-> "phys_alloc", steps |-> new_phys_page_steps \o << ret >>] }

\* a context has panicked: the platform has exited
halted ==
    \E c \in Contexts :
       /\ running[c].op # "idle"
       /\ running[c].steps[running[c].at].do = "panic"

\* Mutex::lock returns once no context holds the lock
may_lock(l) == locks[l] = 0

\* every spinlock free, every context idle
lock_new ==
    /\ locks = [l \in LockNames |-> 0]
    /\ running = [c \in Contexts |-> [op |-> "idle", steps |-> << >>, at |-> 0]]

\* context c enters the operation p
call(c, p) ==
    /\ ~halted
    /\ running[c].op = "idle"
    /\ running' = [running EXCEPT ![c] = [op |-> p.op, steps |-> p.steps, at |-> 1]]
    /\ UNCHANGED locks

\* context c executes its next statement; a return drops the guards the
\* context holds
step(c) ==
    /\ ~halted
    /\ running[c].op # "idle"
    /\ LET st == running[c].steps[running[c].at]
       IN CASE st.do = "lock" ->
                 /\ may_lock(st.on)
                 /\ locks' = [locks EXCEPT ![st.on] = c]
                 /\ running' = [running EXCEPT ![c].at = @ + 1]
            [] st.do = "unlock" ->
                 /\ locks' = [locks EXCEPT ![st.on] = 0]
                 /\ running' = [running EXCEPT ![c].at = @ + 1]
            [] st.do = "return" ->
                 /\ locks' = [l \in LockNames |-> IF locks[l] = c THEN 0 ELSE locks[l]]
                 /\ running' = [running EXCEPT ![c] =
                                   [op |-> "idle", steps |-> << >>, at |-> 0]]
            [] OTHER ->
                 /\ running' = [running EXCEPT ![c].at = @ + 1]
                 /\ UNCHANGED locks

HeapCall ==
    /\ \E c \in Contexts, p \in HeapPrograms : call(c, p)
    /\ UNCHANGED <<heap_vars, vm_vars, pt_vars, boot_vars, mem_vars>>

ContextStep ==
    /\ \E c \in Contexts : step(c)
    /\ UNCHANGED <<heap_vars, vm_vars, pt_vars, boot_vars, mem_vars>>

HeapLockNext == HeapCall \/ ContextStep

ManagerCall ==
    /\ \E c \in Contexts, p \in ManagerPrograms : call(c, p)
    /\ UNCHANGED <<heap_vars, vm_vars, pt_vars, boot_vars, mem_vars>>

ManagerLockNext == ManagerCall \/ ContextStep

(***************************************************************************)
(* kernel_entry: three tables on the boot stack and one translation.       *)
(***************************************************************************)
\* where pt1, pt2 and pt3 lie; tables are 4 KiB aligned
PT1 == Word(0, 0, 32784, 4096)

PT2 == Word(0, 0, 32784, 8192)

PT3 == Word(0, 0, 32784, 12288)

\* entry.validate_or_else(f): an invalid entry becomes f(), made valid
validate_or_else(t, tbl, idx, e) ==
    IF entry_at(t, tbl, idx).valid THEN t
    ELSE set_entry(t, tbl, idx, [e EXCEPT !.valid = TRUE])

\* Sv39PageTableEntry::new() with set_next_page_table(table)
next_page_table_entry(table) ==
    [INVALID_ENTRY EXCEPT !.ppn = shr(table, 12)]

\* Sv39PageTableEntry::new() with set_ppn(ptr) and set_permissions(perms)
page_entry(ptr, perms) ==
    [INVALID_ENTRY EXCEPT !.ppn = shr(ptr, 12), !.perms = perms]

\* pt1[0x03] leads to pt2
wire_pt1(t) == validate_or_else(t, PT1, 3, next_page_table_entry(PT2))

\* pt2[0xF5] left pointing back at pt2
wire_pt2_to_itself(t) == validate_or_else(t, PT2, 245, next_page_table_entry(PT2))

\* pt2[0xF5] leads to pt3
wire_pt2(t) == validate_or_else(t, PT2, 245, next_page_table_entry(PT3))

\* pt3[0xDB] maps the page 0xCAFEB000 read-write
wire_pt3(t) ==
    validate_or_else(t, PT3, 219, page_entry(Word(0, 0, 51966, 45056), {"R", "W"}))

\* the virtual address with the given three indices and page offset
va_of(i2, i1, i0, off) ==
    word_add(shl(word_of(i2), 30), word_of(i1 * (2 ^ 21) + i0 * (2 ^ 12) + off))

\* the indices and offsets of the addresses translated
WalkIndex2 == {3, 2, 259}

WalkIndex1 == {245, 244, 0}

WalkIndex0 == {219, 218, 475}

WalkOffsets == {3823, 0, 1, 4095}

\* the addresses translated: 0xDEADBEEF = (0x03, 0xF5, 0xDB, 0xEEF) and
\* its neighbours in each index and in the offset
WalkInputs ==
    { va_of(a, b, c, o) :
        a \in WalkIndex2, b \in WalkIndex1, c \in WalkIndex0, o \in WalkOffsets }

\* VirtualAddress::to_physical_address(&pt1)
to_physical_address(t, root, va) == translate_from(t, root, 2, va)

boot_new ==
    /\ boot_pc = "tables"
    /\ boot_tables = [a \in {PT1, PT2, PT3} |-> << >>]
    /\ boot_va = word_of(0)
    /\ boot_ret = None

BootWirePt1 ==
    /\ boot_pc = "tables"
    /\ boot_tables' = wire_pt1(boot_tables)
    /\ boot_pc' = "pt1"
    /\ UNCHANGED <<boot_va, boot_ret, heap_vars, vm_vars, pt_vars, mem_vars,
                   lock_vars>>

BootWirePt2 ==
    /\ boot_pc = "pt1"
    /\ boot_tables' = wire_pt2(boot_tables)
    /\ boot_pc' = "pt2"
    /\ UNCHANGED <<boot_va, boot_ret, heap_vars, vm_vars, pt_vars, mem_vars,
                   lock_vars>>

BootWirePt3 ==
    /\ boot_pc = "pt2"
    /\ boot_tables' = wire_pt3(boot_tables)
    /\ boot_pc' = "pt3"
    /\ UNCHANGED <<boot_va, boot_ret, heap_vars, vm_vars, pt_vars, mem_vars,
                   lock_vars>>

BootTranslate ==
    /\ boot_pc = "pt3"
    /\ \E va \in WalkInputs :
          /\ boot_va' = va
          /\ boot_ret' = to_physical_address(boot_tables, PT1, va)
    /\ boot_pc' = "translated"
    /\ UNCHANGED <<boot_tables, heap_vars, vm_vars, pt_vars, mem_vars,
                   lock_vars>>

BootNext == BootWirePt1 \/ BootWirePt2 \/ BootWirePt3 \/ BootTranslate

(***************************************************************************)
(* The specifications.                                                     *)
(***************************************************************************)
Init == heap_new /\ vm_none /\ pt_new /\ boot_new /\ mem_new /\ lock_new

SpecHeap == Init /\ [][HeapNext]_vars

SpecVmspace == Init /\ [][VmNext]_vars

SpecPaging == Init /\ [][PtNext]_vars

SpecBoot == Init /\ [][BootNext]_vars

SpecMem == Init /\ [][MemNext]_vars

SpecHeapLock == Init /\ [][HeapLockNext]_vars

SpecManagerLock == Init /\ [][ManagerLockNext]_vars

(***************************************************************************)
(* Properties of the heap.                                                 *)
(***************************************************************************)
\* n rounded up to a multiple of 8
RoundUp8(n) == ((n + 7) \div 8) * 8

\* the free nodes reachable from h, in list order
RECURSIVE free_list(_, _)
free_list(h, m) ==
    IF h = NULL THEN << >> ELSE <<h>> \o free_list(m[h].next, m)

Range(s) == { s[i] : i \in 1..Len(s) }

\* the first node of the free list whose size is at least req, or NULL
first_fit(h, m, req) ==
    LET l == free_list(h, m)
        fits == { i \in 1..Len(l) : m[l[i]].size >= req }
    IN IF fits = {} THEN NULL
       ELSE l[CHOOSE i \in fits : \A j \in fits : i <= j]

\* the last call was an alloc that got as far as searching the free list
SearchedAlloc ==
    /\ heap_last.op = "alloc"
    /\ heap_last.align <= 8
    /\ heap_last.pre_head # NULL

\* the node the last alloc's search stopped at, or NULL
ReachedNode ==
    first_fit(heap_last.pre_head, heap_last.pre_nodes, RoundUp8(heap_last.size))

\* C2: every non-null pointer alloc returns is 8-byte aligned, and right
\* after dealloc(p) an alloc of the size p was allocated with succeeds: it
\* returns a non-null pointer and does not panic.
C2_AlignedAndReusable ==
    /\ (heap_last.op = "alloc" /\ heap_last.ptr # NULL) => heap_last.ptr % 8 = 0
    /\ heap_last.op = "dealloc" =>
         \A al \in {1, 8} :
            LET r == alloc_result(head, nodes, heap_last.size, al)
            IN r.outcome = "ok" /\ r.ptr # NULL

\* a block was freed while other allocations were still held, and the
\* alloc of the same size gets a block back
C2_Witness ==
    /\ heap_last.op = "dealloc"
    /\ live # {}
    /\ heap_last.ptr % 8 = 0
    /\ alloc_result(head, nodes, heap_last.size, 8).outcome = "ok"

\* C3: every pointer alloc has returned is 8-byte aligned and is the
\* payload of a block whose recorded size is at least the requested size
\* rounded up to a multiple of 8.
C3_AlignedAndLargeEnough ==
    \A a \in live :
        /\ a.ptr % 8 = 0
        /\ (a.ptr - struct_size) \in DOMAIN nodes
        /\ nodes[a.ptr - struct_size].size >= RoundUp8(a.size)

\* two allocations are held, one for a size that is no multiple of 8 and
\* one taken from a node behind it
C3_Witness ==
    /\ heap_last.op = "alloc" /\ heap_last.outcome = "ok"
    /\ \E a, b \in live :
          /\ a.size % 8 # 0
          /\ b.ptr > a.ptr
          /\ b.ptr = heap_last.ptr

\* C4, as claimed: when alloc reaches a node with request <= size <
\* request + header + 8, the node is unlinked and its payload returned,
\* wherever the node is in the list, also when it is the head and the only
\* node.
C4_UnlinksWholeNode ==
    (/\ SearchedAlloc
     /\ ReachedNode # NULL
     /\ heap_last.pre_nodes[ReachedNode].size
           < RoundUp8(heap_last.size) + struct_size + 8)
    => /\ heap_last.outcome = "ok"
       /\ heap_last.ptr = ReachedNode + struct_size
       /\ ReachedNode \notin Range(free_list(head, nodes))

\* the free list before the last call, and after it
ListBefore == free_list(heap_last.pre_head, heap_last.pre_nodes)

ListAfter == free_list(head, nodes)

\* the last alloc reached a node large enough to split
SplitCase ==
    /\ SearchedAlloc
    /\ ReachedNode # NULL
    /\ heap_last.pre_nodes[ReachedNode].size
          >= RoundUp8(heap_last.size) + struct_size + 8

\* the split of C5: the node keeps its address and gets size request, the
\* remainder becomes a free node at node + header + request that takes the
\* node's place in the list, and the node's payload is returned
SplitsAsClaimed ==
    SplitCase =>
        LET req == RoundUp8(heap_last.size)
            old == heap_last.pre_nodes[ReachedNode]
            tail == ReachedNode + struct_size + req
        IN /\ heap_last.outcome = "ok"
           /\ heap_last.ptr = ReachedNode + struct_size
           /\ nodes[ReachedNode].size = req
           /\ tail \in DOMAIN nodes
           /\ nodes[tail].size = old.size - req - struct_size
           /\ nodes[tail].next = old.next
           /\ ListAfter = [i \in 1..Len(ListBefore) |->
                              IF ListBefore[i] = ReachedNode THEN tail
                              ELSE ListBefore[i]]

\* the first alloc after init(X, 4096), for 16 bytes
FirstAlloc16 ==
    /\ heap_last.op = "alloc" /\ heap_last.size = 16 /\ heap_last.align <= 8
    /\ heap_last.pre_head # NULL
    /\ DOMAIN heap_last.pre_nodes = {heap_last.pre_head}
    /\ heap_last.pre_nodes[heap_last.pre_head].size = 4096 - struct_size

\* C5, as claimed: the split, and after init(X, 4096) and alloc(16) the
\* head is at X + header + 16 with size 4096 - 3*header - 16.
C5_SplitAsClaimed ==
    /\ SplitsAsClaimed
    /\ FirstAlloc16 =>
          /\ head = heap_last.pre_head + struct_size + 16
          /\ nodes[head].size = 4096 - 3 * struct_size - 16

\* C5, amended: the split, and after init(X, 4096) and alloc(16) the head
\* is at X + header + 16 with size 4096 - 2*header - 16.
C5_Split ==
    /\ SplitsAsClaimed
    /\ FirstAlloc16 =>
          /\ head = heap_last.pre_head + struct_size + 16
          /\ nodes[head].size = 4096 - 2 * struct_size - 16

\* a node that is not the head was split
C5_Witness ==
    /\ SplitCase
    /\ ReachedNode # heap_last.pre_head
    /\ heap_last.outcome = "ok"

\* C6: on an initialized heap with no free node of at least the rounded
\* request, alloc returns null, does not panic and leaves head, links and
\* sizes as they were.
C6_ExhaustedReturnsNull ==
    (SearchedAlloc /\ ReachedNode = NULL)
    => /\ heap_last.outcome = "null"
       /\ heap_last.ptr = NULL
       /\ head = heap_last.pre_head
       /\ nodes = heap_last.pre_nodes

\* an alloc walked a list of two or more nodes and found none large enough
C6_Witness ==
    /\ SearchedAlloc /\ ReachedNode = NULL
    /\ Len(ListBefore) >= 2
    /\ heap_last.outcome = "null"

\* the node dealloc links back: one header before the pointer freed
FreedNode == heap_last.ptr - struct_size

\* C19: dealloc(p) makes the node one header before p the new head, with
\* next the previous head and the size the node had when the block was
\* handed out, and changes no other node: the free list is the old one
\* with that node in front, one node longer, nothing merged.
C19_PushAtHead ==
    heap_last.op = "dealloc" =>
        /\ head = FreedNode
        /\ nodes[FreedNode].next = heap_last.pre_head
        /\ nodes[FreedNode].size = heap_last.block
        /\ nodes[FreedNode].size = heap_last.pre_nodes[FreedNode].size
        /\ DOMAIN nodes = DOMAIN heap_last.pre_nodes
        /\ \A n \in DOMAIN nodes \ {FreedNode} : nodes[n] = heap_last.pre_nodes[n]
        /\ ListAfter = <<FreedNode>> \o ListBefore
        /\ Len(ListAfter) = Len(ListBefore) + 1

\* a block was freed that ends where the head node began, with two nodes
\* free before: it became the head and was not merged
C19_Witness ==
    /\ heap_last.op = "dealloc"
    /\ Len(ListBefore) = 2
    /\ FreedNode + struct_size + nodes[FreedNode].size = heap_last.pre_head
    /\ head = FreedNode
    /\ Len(ListAfter) = 3

\* the nodes of the free list and the nodes of the live allocations
FreeNodes == Range(ListAfter)

LiveNodes == { a.ptr - struct_size : a \in live }

\* the bytes of the block of node n: its header and its size bytes
BlockFrom(n) == n

BlockTo(n) == n + struct_size + nodes[n].size

\* the sum of header + size over a set of nodes
RECURSIVE TotalBytes(_)
TotalBytes(ns) ==
    IF ns = {} THEN 0
    ELSE LET n == CHOOSE x \in ns : TRUE
         IN (struct_size + nodes[n].size) + TotalBytes(ns \ {n})

\* C21: after init(origin, size) and any alloc and dealloc calls, the
\* blocks (header plus size bytes) of the free nodes and of the live
\* allocations are pairwise disjoint, lie inside [origin, origin + size)
\* and add up to size; no node is both free and live, and none is on the
\* free list twice.
C21_BlocksPartitionRegion ==
    heap_region # <<0, 0>> =>
        /\ FreeNodes \cap LiveNodes = {}
        /\ Cardinality(FreeNodes) = Len(ListAfter)
        /\ Cardinality(LiveNodes) = Cardinality(live)
        /\ \A n \in FreeNodes \cup LiveNodes :
              /\ heap_region[1] <= BlockFrom(n)
              /\ BlockTo(n) <= heap_region[1] + heap_region[2]
        /\ \A n, k \in FreeNodes \cup LiveNodes :
              n # k => (BlockTo(n) <= BlockFrom(k) \/ BlockTo(k) <= BlockFrom(n))
        /\ TotalBytes(FreeNodes \cup LiveNodes) = heap_region[2]

\* after a dealloc two allocations are live and two nodes are free
C21_Witness ==
    /\ heap_last.op = "dealloc"
    /\ Cardinality(live) = 2
    /\ Len(ListAfter) = 2
    /\ TotalBytes(FreeNodes \cup LiveNodes) = heap_region[2]

\* the nodes the search loop of the last alloc examined
Visited ==
    search_path(heap_last.pre_head, align_to_usize(heap_last.size),
                heap_last.pre_nodes)

\* C22: the free list reachable from head is finite and without a cycle
\* (no node is on it twice), and the search loop of every alloc call ends
\* by returning a pointer or null after examining nodes of the free list,
\* none of them twice.
C22_SearchTerminates ==
    /\ Cardinality(Range(ListAfter)) = Len(ListAfter)
    /\ SearchedAlloc =>
          /\ heap_last.outcome \in {"ok", "null"}
          /\ Range(Visited) \subseteq Range(ListBefore)
          /\ Cardinality(Range(Visited)) = Len(Visited)
          /\ Len(Visited) <= Len(ListBefore)

\* C22 without the way the loop ends: the list has no node twice and the
\* loop examines nodes of the list, none twice
SearchVisitsOnce ==
    /\ Cardinality(Range(ListAfter)) = Len(ListAfter)
    /\ SearchedAlloc =>
          /\ Range(Visited) \subseteq Range(ListBefore)
          /\ Cardinality(Range(Visited)) = Len(Visited)

(***************************************************************************)
(* Properties of the spawn hand-off.                                       *)
(***************************************************************************)
\* the i-th item of the hand-off for the grants made: the name of grant
\* (i + 1) / 2 for an odd i up to 2k, the capability and rights of grant
\* i / 2 for an even i, and the four bytes "done" for i = 2k + 1
HandedOff(i) ==
    IF i > 2 * Len(grant_calls)
    THEN [kind |-> "MSG", body |-> <<100, 111, 110, 101>>]
    ELSE IF i % 2 = 1
    THEN [kind |-> "MSG", body |-> grant_calls[(i + 1) \div 2][1]]
    ELSE [kind |-> "CAP", cptr |-> grant_calls[i \div 2][2],
          rights |-> grant_calls[i \div 2][3]]

\* C1: for the k grants made, spawn sends on the channel name_1, CAP_1, ...,
\* name_k, CAP_k and then "done", one item at a time and only while it runs:
\* in every state, also between two calls of the hand-off, what has been
\* sent is the first items of that sequence, so each capability follows its
\* name at once in the order of the grants; when spawn has returned Ok,
\* all 2k+1 items have been sent, and nothing is sent after that.
C1_HandOffOrder ==
    /\ [](/\ Len(channel) <= 2 * Len(grant_calls) + 1
          /\ \A i \in 1..Len(channel) : channel[i] = HandedOff(i))
    /\ []((vm_last.call = "spawn" /\ vm_last.kind = "Ok") =>
            Len(channel) = 2 * Len(grant_calls) + 1)
    /\ [][channel' # channel =>
            /\ vm_state = "spawning"
            /\ Len(channel') = Len(channel) + 1
            /\ \A i \in 1..Len(channel) : channel'[i] = channel[i]]_vars

\* a spawn succeeded after two grants with different names and capabilities
C1_Witness ==
    /\ vm_last.call = "spawn" /\ vm_last.kind = "Ok"
    /\ vm_state = "spawned"
    /\ Len(grant_calls) = 2
    /\ grant_calls[1][1] # grant_calls[2][1]
    /\ grant_calls[1][2] # grant_calls[2][2]
    /\ Len(channel) = 5

\* C12: every syscall failure inside the Vmspace wrappers (create_vmspace
\* in new, alloc_vmspace_object in create_object, spawn_vmspace and the
\* new_message / send / send_capability calls of the hand-off in spawn)
\* comes back to the caller as an error value, and no call aborts.
C12_ErrorsSurfaced ==
    /\ vm_last.kind # "panic"
    /\ vm_last.failed # "none" => vm_last.kind = "Err"

\* C13: once the unspawned Vmspace value has been dropped, the address
\* space its id names and every object mapping created for it are released.
C13_DroppedIsReclaimed ==
    vm_state = "dropped" =>
        /\ vm_id \notin address_spaces
        /\ \A i \in DOMAIN objects : objects[i].id # vm_id

\* a step of grant: one more call of grant has been made
GrantStep == grant_calls' # grant_calls

\* C16: grant only appends (name, capability, rights) to the end of the
\* staging list: it makes no syscall, sends nothing on the channel and
\* leaves the id, the earlier staged entries and the kernel's side as they
\* were; nothing is on the channel before spawn_vmspace has been called,
\* and an item goes on the channel only in a step of spawn's hand-off.
C16_GrantOnlyStages ==
    /\ [][GrantStep =>
            /\ Len(caps_to_send') = Len(caps_to_send) + 1
            /\ \A i \in 1..Len(caps_to_send) : caps_to_send'[i] = caps_to_send[i]
            /\ caps_to_send'[Len(caps_to_send')] = grant_calls'[Len(grant_calls')]
            /\ syscalls' = syscalls
            /\ channel' = channel
            /\ spawning' = spawning
            /\ vm_id' = vm_id
            /\ vm_state' = vm_state
            /\ address_spaces' = address_spaces
            /\ objects' = objects]_vars
    /\ [](channel # << >> =>
            \E i \in DOMAIN syscalls : syscalls[i] = "spawn_vmspace")
    /\ [](vm_state \in {"none", "staging", "dropped", "failed"} =>
            channel = << >>)
    /\ [][channel' # channel =>
            /\ vm_state = "spawning"
            /\ grant_calls' = grant_calls
            /\ caps_to_send' = caps_to_send]_vars

\* a second grant, with another name and capability, has been staged behind
\* the first after an object was created, and nothing has been sent
C16_Witness ==
    /\ vm_last.call = "grant"
    /\ vm_state = "staging"
    /\ Len(caps_to_send) = 2
    /\ caps_to_send[1][1] # caps_to_send[2][1]
    /\ caps_to_send[1][2] # caps_to_send[2][2]
    /\ caps_to_send = grant_calls
    /\ syscalls = <<"create_vmspace", "alloc_vmspace_object">>
    /\ channel = << >>

(***************************************************************************)
(* Properties of the heap spinlock.                                        *)
(***************************************************************************)
\* the statement context c is about to execute
Statement(c) == running[c].steps[running[c].at]

\* context c is about to read or write x
Touches(c, x) ==
    /\ running[c].op # "idle"
    /\ Statement(c).do \in {"read", "write"}
    /\ Statement(c).on = x

\* context c has executed a read or write of x in its operation
HasTouched(c, x) ==
    /\ running[c].op # "idle"
    /\ \E i \in 1..(running[c].at - 1) :
          /\ running[c].steps[i].do \in {"read", "write"}
          /\ running[c].steps[i].on = x

\* C18: init, alloc and dealloc take the heap spinlock before their first
\* read or write of the free list and hold it until they return, so no two
\* contexts are at a read or write of the free list at the same time.
C18_HeapLockHeld ==
    /\ \A c \in Contexts :
          (Touches(c, "free_list") \/ HasTouched(c, "free_list"))
             => locks["inner"] = c
    /\ \A c, d \in Contexts :
          (c # d /\ Touches(c, "free_list")) =>
             ~(Touches(d, "free_list") \/ HasTouched(d, "free_list"))

\* one context is inside dealloc, about to write the head, while another
\* has called alloc and waits for the lock
C18_Witness ==
    \E c, d \in Contexts :
       /\ c # d
       /\ running[c].op = "dealloc"
       /\ Touches(c, "free_list")
       /\ HasTouched(c, "free_list")
       /\ running[d].op = "alloc"
       /\ Statement(d) = [do |-> "lock", on |-> "inner"]
       /\ locks["inner"] = c

\* C17: every read or write of the root page table made by
\* alloc_virtual_range, alloc_virtual, map_direct, map_mmio,
\* map_with_allocator, unmap_with_translation and
\* is_mapped_with_translation happens while the calling context holds the
\* PAGE_TABLE_MANAGER mutex, so no context touches the root table while
\* another is in the middle of such an operation on it.
C17_RootUnderManagerLock ==
    /\ \A c \in Contexts :
          Touches(c, "root") => locks["PAGE_TABLE_MANAGER"] = c
    /\ \A c, d \in Contexts :
          (c # d /\ Touches(c, "root")) =>
             ~(Touches(d, "root") \/ HasTouched(d, "root"))

\* C23: for every list of grants, "done" among the names included, the
\* receiver that stops at the first message with the body "done" has by
\* then received all k staged capabilities, each under its name.
C23_DoneEndsHandOff ==
    (vm_last.call = "spawn" /\ vm_last.kind = "Ok") =>
        /\ Len(received(channel)) = Len(grant_calls)
        /\ \A i \in 1..Len(grant_calls) :
              received(channel)[i] =
                 << grant_calls[i][1],
                    [kind |-> "CAP", cptr |-> grant_calls[i][2],
                     rights |-> grant_calls[i][3]] >>

\* context c is in an operation and its next statement can be executed
CanStep(c) ==
    /\ running[c].op # "idle"
    /\ Statement(c).do = "lock" => locks[Statement(c).on] = 0

\* C24: in every PageTableManager operation the frame allocator's lock is
\* held only by a context that holds the manager's lock, it is not held
\* when the frame is written or a table entry is read or written, no context
\* asks for the manager's lock while it holds the allocator's, and whenever
\* some context is inside an operation and the kernel has not panicked one
\* of them can go on: the callers never deadlock on the two locks.
C24_LockOrder ==
    /\ \A c \in Contexts :
          (locks["PHYSICAL_MEMORY_ALLOCATOR"] = c /\ running[c].op \in ManagerOps)
             => locks["PAGE_TABLE_MANAGER"] = c
    /\ \A c \in Contexts :
          (Touches(c, "frame") \/ Touches(c, "root"))
             => locks["PHYSICAL_MEMORY_ALLOCATOR"] # c
    /\ \A c \in Contexts :
          (running[c].op # "idle"
           /\ Statement(c) = [do |-> "lock", on |-> "PAGE_TABLE_MANAGER"])
             => locks["PHYSICAL_MEMORY_ALLOCATOR"] # c
    /\ (~halted /\ \E c \in Contexts : running[c].op # "idle")
          => \E c \in Contexts : CanStep(c)

(***************************************************************************)
(* Properties of MemoryAllocation and DmaRegion.                           *)
(***************************************************************************)
\* C14: private_rw asks for the PRIVATE option with read+write and, when
\* the syscall succeeds, returns the handle usize::MAX, whatever handle the
\* kernel returned, with the kernel's pointer; public_rw asks for NONE with
\* read+write and returns the kernel's handle and pointer; when the syscall
\* fails both return its error.
C14_PrivateSentinel ==
    /\ mem_last.call = "private_rw" =>
          /\ mem_last.ret.request.options = "PRIVATE"
          /\ mem_last.ret.request.permissions = {"READ", "WRITE"}
          /\ mem_last.answer.ok =>
                /\ mem_last.ret.kind = "Ok"
                /\ mem_last.ret.cptr = Word(65535, 65535, 65535, 65535)
                /\ mem_last.ret.ptr = mem_last.answer.ptr
    /\ mem_last.call = "public_rw" =>
          /\ mem_last.ret.request.options = "NONE"
          /\ mem_last.ret.request.permissions = {"READ", "WRITE"}
          /\ mem_last.answer.ok =>
                /\ mem_last.ret.kind = "Ok"
                /\ mem_last.ret.cptr = mem_last.answer.cptr
                /\ mem_last.ret.ptr = mem_last.answer.ptr
    /\ (mem_last.call \in {"private_rw", "public_rw"} /\ ~mem_last.answer.ok) =>
          /\ mem_last.ret.kind = "Err"
          /\ mem_last.ret.error = mem_last.answer.error

\* private_rw succeeded where the kernel had returned the handle 5
C14_Witness ==
    /\ mem_last.call = "private_rw"
    /\ mem_last.answer.ok
    /\ mem_last.answer.cptr = word_of(5)
    /\ mem_last.ret.kind = "Ok"
    /\ mem_last.ret.cptr # mem_last.answer.cptr

\* C15: for a region of N elements of size S with physical base B, get(i)
\* is an element with physical address B + i*S when i < N and None when
\* i >= N, and the region's own physical address is still B.
C15_ElementAddress ==
    dma_last.call = "get" =>
        /\ ~dma_last.panic
        /\ dma_last.ret =
              IF dma_last.index < dma_region.len
              THEN [some |-> TRUE,
                    addr |-> add_limbs(dma_last.phys,
                                       word_of(dma_last.index
                                               * dma_region.size_of)).sum]
              ELSE [some |-> FALSE, addr |-> word_of(0)]
        /\ physical_address(dma_region) = dma_last.phys
        /\ dma_region.phys \in DmaBases

\* get(2) on a region of three 8-byte elements at 0x80200000 gave the
\* element at 0x80200010
C15_Witness ==
    /\ dma_last.call = "get"
    /\ dma_last.index = 2
    /\ dma_region.len = 3
    /\ dma_region.size_of = 8
    /\ dma_region.phys = Word(0, 0, 32800, 0)
    /\ dma_last.ret = [some |-> TRUE, addr |-> Word(0, 0, 32800, 16)]

\* get(3) on a region of three elements gave None
C15_WitnessOutOfRange ==
    /\ dma_last.call = "get"
    /\ dma_last.index = dma_region.len
    /\ dma_region.len = 3
    /\ ~dma_last.ret.some


(***************************************************************************)
(* Properties of the page-table manager.                                   *)
(***************************************************************************)
\* the offsets into a page the translation is tried at
Offsets == {0, 1, 2047, 3823, 4095}

\* no manager call is in progress: the tables are as the last call left
\* them
NoCallInProgress == pt_cur.pc = "idle"

\* the last call ran out of frames
OutOfFrames ==
    /\ pt_last.outcome = "panic"
    /\ pt_last.why = "we oom, rip"

\* the entry of the level-0 table that va leads to, or an invalid entry
\* when the path to a level-0 table is not there
pte_4k(t, va) ==
    LET e2 == entry_at(t, PAGE_TABLE_ROOT, field(va, 30, 9))
        e1 == entry_at(t, shl(e2.ppn, 12), field(va, 21, 9))
    IN IF ~e2.valid \/ is_leaf(e2) THEN INVALID_ENTRY
       ELSE IF ~e1.valid \/ is_leaf(e1) THEN INVALID_ENTRY
       ELSE entry_at(t, shl(e1.ppn, 12), field(va, 12, 9))

\* a leaf of a larger page size covers va
CoveredByLargerLeaf(t, va) ==
    LET e2 == entry_at(t, PAGE_TABLE_ROOT, field(va, 30, 9))
        e1 == entry_at(t, shl(e2.ppn, 12), field(va, 21, 9))
    IN is_leaf(e2) \/ (e2.valid /\ is_leaf(e1))

\* the last call was map_mmio with a size that is a multiple of 4096
MmioCall ==
    /\ NoCallInProgress
    /\ pt_last.op = "map_mmio"
    /\ pt_last.size % 4096 = 0

\* 0xFFFFFFE000000000 + map_from of the last call
MmioWindow == add_limbs(Word(65535, 65504, 0, 0), pt_last.map_from)

\* the first n 4 KiB slices of the window of the last map_mmio call
\* translate to the slices of the device, each through a valid entry with
\* R and W set and X and U clear
MmioPagesMapped(n) ==
    \A i \in 0..(n - 1) :
       LET va == word_add(MmioWindow.sum, word_of(i * 4096))
           pa == word_add(pt_last.map_from, word_of(i * 4096))
       IN /\ pte_4k(tables, va).valid
          /\ pte_4k(tables, va).perms = {"R", "W"}
          /\ translate(tables, va) = Some(pa)

\* what C7 says of the last map_mmio call: it returned 0xFFFFFFE000000000
\* + map_from, every 4 KiB slice of the window is mapped to its slice of the
\* device, and the returned address translates to map_from
MmioMapped ==
    /\ pt_last.outcome = "returned"
    /\ ~MmioWindow.overflow
    /\ pt_last.ret = MmioWindow.sum
    /\ MmioPagesMapped(pt_last.size \div 4096)
    /\ translate(tables, pt_last.ret) = Some(pt_last.map_from)

\* the last map_mmio call ran out of frames at one of its pages, with the
\* pages before that one mapped
MmioOutOfFrames ==
    /\ OutOfFrames
    /\ Len(pt_last.maps) < pt_last.size \div 4096
    /\ MmioPagesMapped(Len(pt_last.maps))

\* C7, as claimed: map_mmio(map_from, size) with size a multiple of 4096
\* returns 0xFFFFFFE000000000 + map_from and maps every 4 KiB slice of the
\* window to the slice of the device, read-write, not executable, not user.
C7_MmioAsClaimed == MmioCall => MmioMapped

\* C7, amended: for a size that is a positive multiple of 4096 and a
\* map_from that is a multiple of 4096, whose window from
\* 0xFFFFFFE000000000 + map_from on, size bytes long, does not pass the end
\* of the 64-bit address space and is not already covered by a leaf of a
\* larger page size, map_mmio either returns 0xFFFFFFE000000000 + map_from
\* with every slice mapped as claimed, or panics with "we oom, rip" when no
\* frame is left for a table of its walk, the pages before that one mapped.
C7_Mmio ==
    (/\ MmioCall
     /\ pt_last.size > 0
     /\ field(pt_last.map_from, 0, 12) = 0
     /\ ~MmioWindow.overflow
     /\ ~add_limbs(MmioWindow.sum, word_of(pt_last.size - 4096)).overflow
     /\ \A i \in 0..(pt_last.size \div 4096 - 1) :
           ~CoveredByLargerLeaf(pt_last.pre_tables,
                                word_add(MmioWindow.sum, word_of(i * 4096))))
    => (MmioMapped \/ MmioOutOfFrames)

\* map_mmio(0x10000000, 0x2000) returned 0xFFFFFFE010000000 with both
\* pages mapped, its two tables on frames that other contexts left to it
C7_Witness ==
    /\ MmioCall
    /\ pt_last.map_from = Word(0, 0, 4096, 0)
    /\ pt_last.size = 8192
    /\ pt_last.outcome = "returned"
    /\ pt_last.ret = Word(65535, 65504, 4096, 0)
    /\ pt_last.frames = << frame(1), frame(3) >>
    /\ translate(tables, Word(65535, 65504, 4096, 4096)) = Some(Word(0, 0, 4096, 4096))

\* map_mmio(0x10000000, 0x2000) ran out of frames at the second table of
\* its first page
C7_WitnessOutOfFrames ==
    /\ MmioCall
    /\ pt_last.map_from = Word(0, 0, 4096, 0)
    /\ pt_last.size = 8192
    /\ MmioOutOfFrames
    /\ Len(pt_last.frames) = 1

\* C8: every map(P, V, 4 KiB, perms) that has mapped V and has not been
\* replaced or unmapped since translates, in every state, V + k to
\* P + (V mod 4096) + k for the offsets k of the page, whatever tables were
\* linked and whatever was mapped after it; after map_direct(P, V, 4 KiB,
\* perms) this holds of its P and V, and after alloc_virtual(V, perms) of
\* the frame it took from the allocator first.
C8_TranslateAfterMap ==
    /\ \A p \in pt_mapped : \A k \in {0, 4095} :
          translate(tables, word_add(p.map_to, word_of(k)))
            = Some(word_add(p.map_from,
                            word_of(field(p.map_to, 0, 12) + k)))
    /\ (/\ NoCallInProgress
        /\ pt_last.op = "map_direct"
        /\ pt_last.size = "Kilopage"
        /\ pt_last.maps = <<"Ok">>)
       => \A k \in Offsets :
             translate(tables, word_add(pt_last.map_to, word_of(k)))
               = Some(word_add(pt_last.map_from,
                               word_of(field(pt_last.map_to, 0, 12) + k)))
    /\ (/\ NoCallInProgress
        /\ pt_last.op = "alloc_virtual"
        /\ pt_last.maps = <<"Ok">>)
       => \A k \in Offsets :
             translate(tables, word_add(pt_last.map_to, word_of(k)))
               = Some(word_add(pt_last.frames[1],
                               word_of(field(pt_last.map_to, 0, 12) + k)))

\* map(0x3000, 0x2000, 4 KiB, RX) replaced the mapping a range of two pages
\* had made of 0x2000, and the mapping of 0x3000 is still in force
C8_Witness ==
    /\ NoCallInProgress
    /\ pt_last.op = "map_direct"
    /\ pt_last.size = "Kilopage"
    /\ pt_last.maps = <<"Ok">>
    /\ pt_last.map_from = Word(0, 0, 0, 12288)
    /\ translate(pt_last.pre_tables, pt_last.map_to).some
    /\ Cardinality(pt_mapped) = 2
    /\ translate(tables, Word(0, 0, 0, 8192 + 3823)) = Some(Word(0, 0, 0, 12288 + 3823))

\* the last call was map_direct with a source or target that is no
\* multiple of the page size asked for
MisalignedMap ==
    /\ NoCallInProgress
    /\ pt_last.op = "map_direct"
    /\ \/ field(pt_last.map_from, 0, 12) # 0
       \/ field(pt_last.map_to, 0, 12) # 0
       \/ /\ pt_last.size = "Megapage"
          /\ \/ field(pt_last.map_from, 0, 21) # 0
             \/ field(pt_last.map_to, 0, 21) # 0

\* C10: a map request whose physical source or virtual target is not
\* aligned to the requested page size comes back to its caller as the
\* error result InvalidArgument and leaves the page tables as they were.
C10_MisalignedRejected ==
    MisalignedMap =>
        /\ pt_last.ret = "InvalidArgument"
        /\ tables = pt_last.pre_tables

\* the last call was alloc_virtual_range
RangeCall == NoCallInProgress /\ pt_last.op = "alloc_virtual_range"

\* the number of 4 KiB slices of the last alloc_virtual_range call
RangeSlices == pt_last.size \div 4096

\* the virtual address of slice i of the last alloc_virtual_range call
RangeSlice(i) == word_add(pt_last.start, word_of(i * 4096))

\* the frames the allocator handed out to the last call
FramesOfCall == { pt_last.frames[k] : k \in 1..Len(pt_last.frames) }

\* the frames the allocator had handed out when the last call began
FramesBefore == { frame(k) : k \in 0..(pt_last.pre_used - 1) }

\* the first n slices of the last alloc_virtual_range call each translate
\* to a frame the allocator handed out during the call and not before,
\* which is no page table, and no two of them translate to the same frame
RangeSlicesBacked(n) ==
    /\ \A i \in 0..(n - 1) :
          /\ translate(tables, RangeSlice(i)).some
          /\ translate(tables, RangeSlice(i)).addr \in FramesOfCall
          /\ translate(tables, RangeSlice(i)).addr \notin FramesBefore
          /\ translate(tables, RangeSlice(i)).addr \notin DOMAIN tables
          /\ translate(pt_last.pre_tables, RangeSlice(i))
                # translate(tables, RangeSlice(i))
    /\ \A i, j \in 0..(n - 1) :
          i # j => translate(tables, RangeSlice(i)) # translate(tables, RangeSlice(j))

\* what C11 says of a call with a size that is a multiple of 4096: the
\* call returned with every slice backed by a frame of its own
RangeBacked ==
    /\ pt_last.outcome = "returned"
    /\ RangeSlicesBacked(RangeSlices)

\* the last alloc_virtual_range call ran out of frames at one of its
\* slices, with the slices before that one each backed by a frame of its own
RangeOutOfFrames ==
    /\ OutOfFrames
    /\ Len(pt_last.maps) < RangeSlices
    /\ RangeSlicesBacked(Len(pt_last.maps))

\* what C11 says of a call with a size that is no multiple of 4096: it
\* fails with no frame taken and no table changed
RangeRefused ==
    /\ pt_last.outcome = "panic"
    /\ pt_last.maps = << >>
    /\ pt_last.frames = << >>
    /\ tables = pt_last.pre_tables

\* C11, as claimed: alloc_virtual_range(start, size, perms) with size a
\* multiple of 4096 backs every slice start + i*4096 with a frame of its
\* own, fresh from the allocator; with another size it fails before it
\* takes a frame or changes a table.
C11_RangeAsClaimed ==
    RangeCall =>
        IF pt_last.size % 4096 = 0 THEN RangeBacked ELSE RangeRefused

\* C11, amended: for a start that is a multiple of 4096 with the range
\* inside the 64-bit address space, permissions that are not
\* write-without-read and no slice covered by a leaf of a larger page size,
\* the call either returns with every slice backed by a frame of its own,
\* fresh from the allocator, or panics with "we oom, rip" when no frame is
\* left, the slices before that one each backed by a frame of its own; with
\* a size that is no multiple of 4096 it fails before it takes a frame or
\* changes a table.
C11_Range ==
    RangeCall =>
        IF pt_last.size % 4096 = 0
        THEN (/\ field(pt_last.start, 0, 12) = 0
              /\ ~add_limbs(pt_last.start, word_of(pt_last.size - 4096)).overflow
              /\ ~("W" \in pt_last.perms /\ "R" \notin pt_last.perms)
              /\ \A i \in 0..(RangeSlices - 1) :
                    ~CoveredByLargerLeaf(pt_last.pre_tables, RangeSlice(i)))
             => (RangeBacked \/ RangeOutOfFrames)
        ELSE RangeRefused

\* alloc_virtual_range(0x2000, 0x2000, RW) backed 0x2000 and 0x3000 with
\* two frames, on tables that mapped 0x2000 before, while another context
\* took the frame between the two
C11_Witness ==
    /\ RangeCall
    /\ pt_last.start = Word(0, 0, 0, 8192)
    /\ pt_last.size = 8192
    /\ pt_last.outcome = "returned"
    /\ translate(pt_last.pre_tables, Word(0, 0, 0, 8192)).some
    /\ translate(tables, Word(0, 0, 0, 8192)) = Some(frame(pt_last.pre_used))
    /\ translate(tables, Word(0, 0, 0, 12288)) = Some(frame(pt_last.pre_used + 2))
    /\ pt_last.frames = << frame(pt_last.pre_used), frame(pt_last.pre_used + 2) >>

\* alloc_virtual_range(0x2000, 0x2000, RW) backed 0x2000 and ran out of
\* frames at 0x3000
C11_WitnessOutOfFrames ==
    /\ RangeCall
    /\ pt_last.start = Word(0, 0, 0, 8192)
    /\ pt_last.size = 8192
    /\ RangeOutOfFrames
    /\ pt_last.maps = <<"Ok">>
    /\ translate(tables, Word(0, 0, 0, 8192)).some

\* alloc_virtual_range(0x2000, 100, RW) was refused on tables that already
\* map something
C11_WitnessRefused ==
    /\ RangeCall
    /\ pt_last.size = 100
    /\ RangeRefused
    /\ Cardinality(DOMAIN tables) > 1

\* the tables the last call linked into the tree
NewTables ==
    IF pt_last.op = "none" THEN {}
    ELSE DOMAIN tables \ DOMAIN pt_last.pre_tables

\* the virtual addresses the last call asked to map
CallTargets ==
    CASE pt_last.op \in {"map_direct", "alloc_virtual"} -> {pt_last.map_to}
      [] pt_last.op = "map_mmio" ->
            { word_add(MmioWindow.sum, word_of(i * 4096)) :
                i \in 0..(pt_last.size \div 4096 - 1) }
      [] pt_last.op = "alloc_virtual_range" ->
            { RangeSlice(i) : i \in 0..(RangeSlices - 1) }
      [] OTHER -> {}

\* the table of the given level that the walk for va goes through, or the
\* zero address when the walk does not get that far
path_table(t, va, level) ==
    LET e2 == entry_at(t, PAGE_TABLE_ROOT, field(va, 30, 9))
        t1 == shl(e2.ppn, 12)
        e1 == entry_at(t, t1, field(va, 21, 9))
    IN IF ~e2.valid \/ is_leaf(e2) THEN word_of(0)
       ELSE IF level = 1 THEN t1
       ELSE IF ~e1.valid \/ is_leaf(e1) THEN word_of(0)
       ELSE shl(e1.ppn, 12)

\* the tables that can be reached from the root through branch entries
ReachableTables ==
    LET below(T) == { shl(tables[T][i].ppn, 12) :
                        i \in { j \in DOMAIN tables[T] :
                                  tables[T][j].valid /\ ~is_leaf(tables[T][j]) } }
        level1 == below(PAGE_TABLE_ROOT)
    IN {PAGE_TABLE_ROOT} \cup level1 \cup UNION { below(T) : T \in level1 }

\* the last call was alloc_virtual, alloc_virtual_range (a loop of
\* alloc_virtual), map_direct or map_mmio, which pass their own closure to
\* map
OwnClosureCall ==
    /\ NoCallInProgress
    /\ pt_last.op \in {"alloc_virtual", "alloc_virtual_range", "map_direct",
                       "map_mmio"}

\* map is about to write the branch entry that points to a table from the
\* closure of the manager: the table is the frame this call took last,
\* which was not handed out before, no table points to it yet, and it
\* holds no entry
LinkingZeroed ==
    (pt_cur.pc = "link" /\ pt_cur.call.f = "manager") =>
        /\ pt_cur.phys = pt_cur.frames[Len(pt_cur.frames)]
        /\ pt_cur.phys \notin { frame(k) : k \in 0..(pt_cur.pre_used - 1) }
        /\ pt_cur.phys \notin DOMAIN pt_cur.pre_tables
        /\ pt_cur.phys \notin ReachableTables
        /\ DOMAIN tables[pt_cur.phys] = {}

\* every table the last call linked into the tree is a frame the allocator
\* handed out to that call, is reached from the root on the walk of an
\* address the call maps, and holds no valid entry but those the walks of
\* the call wrote into it
LinkedFreshAndZeroed ==
    \A T \in NewTables :
       /\ T \in FramesOfCall
       /\ T \notin FramesBefore
       /\ \E va \in CallTargets, L \in {0, 1} : path_table(tables, va, L) = T
       /\ \A idx \in DOMAIN tables[T] :
             tables[T][idx].valid =>
                \E va \in CallTargets, L \in {0, 1} :
                   /\ path_table(tables, va, L) = T
                   /\ idx = field(va, 12 + 9 * L, 9)

\* the table T holds a valid entry that was in its frame before the frame
\* was handed out
HoldsStaleEntry(T) ==
    \E idx \in DOMAIN tables[T] :
       /\ tables[T][idx].valid
       /\ tables[T][idx].ppn = Word(0, 0, 13, 57005)

\* C20: every table alloc_virtual, map_direct and map_mmio link into the
\* tree is a frame fresh from the allocator with no valid entry at the
\* moment its branch entry is written, and in no state, the states between
\* the taking of a frame and its linking included, does a table reachable
\* from the root hold a stale valid entry.
C20_TablesLinkedZeroed ==
    /\ LinkingZeroed
    /\ OwnClosureCall => LinkedFreshAndZeroed
    /\ ReachableTables \subseteq DOMAIN tables
    /\ \A T \in ReachableTables : ~HoldsStaleEntry(T)

\* map_mmio is about to link a table that its closure has just written into
\* a fresh frame, below a root under which alloc_virtual has mapped a page
C20_Witness ==
    /\ pt_cur.pc = "link"
    /\ pt_cur.call.f = "manager"
    /\ pt_cur.record.op = "map_mmio"
    /\ pt_last.op = "alloc_virtual"
    /\ pt_last.maps = <<"Ok">>
    /\ Cardinality(DOMAIN pt_cur.pre_tables) > 1
    /\ DOMAIN tables[pt_cur.phys] = {}

(***************************************************************************)
(* Properties of the three-level walk.                                     *)
(***************************************************************************)
\* C9: the walk takes its indices from bits 38:30, 29:21 and 20:12. With
\* root[0x03] -> mid, mid[0xF5] -> leaf and leaf[0xDB] a read-write leaf
\* with PPN 0xCAFEB, the address 0xDEADBEEF, which is (0x03, 0xF5, 0xDB)
\* with offset 0xEEF, translates to 0xCAFEBEEF; every address with these
\* three indices translates to (0xCAFEB << 12) + its offset, and every
\* address that differs in an index meets an invalid entry and gives None.
C9_ThreeLevelWalk ==
    boot_pc = "translated" =>
        /\ va_of(3, 245, 219, 3823) = Word(0, 0, 57005, 48879)
        /\ boot_va = Word(0, 0, 57005, 48879)
              => boot_ret = Some(Word(0, 0, 51966, 48879))
        /\ \A a \in WalkIndex2, b \in WalkIndex1, c \in WalkIndex0,
              o \in WalkOffsets :
              boot_va = va_of(a, b, c, o) =>
                 boot_ret = IF <<a, b, c>> = <<3, 245, 219>>
                            THEN Some(Word(0, 0, 51966, 45056 + o))
                            ELSE None

\* kernel_entry translated 0xDEADBEEF and got an address
C9_Witness ==
    /\ boot_pc = "translated"
    /\ boot_va = Word(0, 0, 57005, 48879)
    /\ boot_ret.some

====
